---- MODULE Spec2Model ----
(***************************************************************************)
(* Collaborative to-do list backend (Express + PostgreSQL through pg.Pool). *)
(* The model follows the route handlers statement by statement: every      *)
(* pool.query of a handler is one step, executed on the connection the     *)
(* pool hands out for that call.                                           *)
(***************************************************************************)
EXTENDS Integers, Sequences, FiniteSets, TLC

\* ------------------------------------------------------------------ bounds
MaxUsers == 3
MaxLists == 2
MaxTasks == 2
MaxSubtasks == 2
MaxConns == 2
MaxInFlight == 2
MaxFaults == 1
MaxTransfers == 1
MaxRequests == 1
MaxMemberRequests == 2
MaxProbes == 2
MaxToggles == 2
MaxTagRequests == 2

Users == 1..MaxUsers
ListIds == 1..MaxLists
TaskIds == 1..MaxTasks
SubtaskIds == 1..MaxSubtasks
Conns == 1..MaxConns
Slots == 1..MaxInFlight

\* ids a request may name: the rows that can exist and one id past them
ReqListIds == 1..(MaxLists + 1)
ReqTaskIds == 1..(MaxTasks + 1)
ReqSubtaskIds == 1..(MaxSubtasks + 1)
ReqUserIds == 1..(MaxUsers + 1)

Roles == {"member", "admin"}
ListNames == {"groceries", "chores"}
Titles == {"t1", "t2"}

\* ------------------------------------------------------------ tag names
\* A tag name is a sequence of characters; " " is white space, "W" is the
\* upper-case form of "w".
RawNames == {<<"w">>, <<"W">>, <<" ", "w">>, <<" ">>, <<"h">>}

ToLowerChar(ch) == IF ch = "W" THEN "w" ELSE IF ch = "H" THEN "h" ELSE ch

toLowerCase(s) == [i \in 1..Len(s) |-> ToLowerChar(s[i])]

RECURSIVE TrimLeft(_)
TrimLeft(s) == IF s # <<>> /\ Head(s) = " " THEN TrimLeft(Tail(s)) ELSE s

RECURSIVE TrimRight(_)
TrimRight(s) ==
  IF s # <<>> /\ s[Len(s)] = " " THEN TrimRight(SubSeq(s, 1, Len(s) - 1)) ELSE s

trim(s) == TrimRight(TrimLeft(s))

TagNames == {toLowerCase(trim(n)) : n \in RawNames}

\* the tags arrays a request may carry
TagLists ==
  {<<>>, << <<"w">> >>, << <<"W">>, <<" ", "w">> >>, << <<" ">> >>, << <<"w">>, <<"h">> >>}

\* ---------------------------------------------------------------- emails
\* An address is the mailbox of a user (0: nobody's) written in lower case
\* or with upper-case letters.  users.email holds the lower-case form.
Emails == [user : 0..MaxUsers, upper : BOOLEAN]
NoEmail == [user |-> 0, upper |-> FALSE]
UserEmail(u) == [user |-> u, upper |-> FALSE]
\* mutation: the address is looked up as it was typed
emailToLowerCase_asTyped(e) == e

emailToLowerCase(e) == [e EXCEPT !.upper = FALSE]

\* ------------------------------------------------------------- the Store
NoList == [live |-> FALSE, name |-> "", owner_id |-> 0]
NoTask == [live |-> FALSE, list_id |-> 0, title |-> "", completed |-> FALSE]
NoSubtask == [live |-> FALSE, task_id |-> 0, title |-> "", completed |-> FALSE]

Completed == {"undefined", "true", "false"}

EmptyDB ==
  [lists |-> [l \in ListIds |-> NoList],
   list_members |-> [k \in ListIds \X Users |-> "none"],
   tasks |-> [t \in TaskIds |-> NoTask],
   subtasks |-> [s \in SubtaskIds |-> NoSubtask],
   tags |-> {},
   task_tags |-> {}]

NoKeys ==
  [lists |-> {}, list_members |-> {}, tasks |-> {}, subtasks |-> {},
   tags |-> {}, task_tags |-> {}]

SymDiff(a, b) == (a \ b) \cup (b \ a)

\* the row keys on which two database values differ
Diff(a, b) ==
  [lists |-> {l \in ListIds : a.lists[l] # b.lists[l]},
   list_members |-> {k \in ListIds \X Users : a.list_members[k] # b.list_members[k]},
   tasks |-> {t \in TaskIds : a.tasks[t] # b.tasks[t]},
   subtasks |-> {s \in SubtaskIds : a.subtasks[s] # b.subtasks[s]},
   tags |-> SymDiff(a.tags, b.tags),
   task_tags |-> SymDiff(a.task_tags, b.task_tags)]

KeyUnion(j, k) ==
  [lists |-> j.lists \cup k.lists,
   list_members |-> j.list_members \cup k.list_members,
   tasks |-> j.tasks \cup k.tasks,
   subtasks |-> j.subtasks \cup k.subtasks,
   tags |-> j.tags \cup k.tags,
   task_tags |-> j.task_tags \cup k.task_tags]

KeysMeet(j, k) ==
  \/ j.lists \cap k.lists # {}
  \/ j.list_members \cap k.list_members # {}
  \/ j.tasks \cap k.tasks # {}
  \/ j.subtasks \cap k.subtasks # {}
  \/ j.tags \cap k.tags # {}
  \/ j.task_tags \cap k.task_tags # {}

\* the rows of `view` at the keys `keys`, the rows of `base` elsewhere
Merge(base, view, keys) ==
  [lists |-> [l \in ListIds |-> IF l \in keys.lists THEN view.lists[l] ELSE base.lists[l]],
   list_members |-> [k \in ListIds \X Users |->
       IF k \in keys.list_members THEN view.list_members[k] ELSE base.list_members[k]],
   tasks |-> [t \in TaskIds |-> IF t \in keys.tasks THEN view.tasks[t] ELSE base.tasks[t]],
   subtasks |-> [s \in SubtaskIds |->
       IF s \in keys.subtasks THEN view.subtasks[s] ELSE base.subtasks[s]],
   tags |-> (base.tags \ keys.tags) \cup (view.tags \cap keys.tags),
   task_tags |-> (base.task_tags \ keys.task_tags) \cup (view.task_tags \cap keys.task_tags)]

VARIABLES
  db,        \* the committed rows of the database
  tx,        \* per connection: the state of its transaction and its uncommitted rows
  idle,      \* pg.Pool: the idle clients, most recently released last
  held,      \* pg.Pool: the clients checked out by a query still in flight
  seqs,      \* the SERIAL sequences of lists, tasks and subtasks
  req,       \* per request slot: the request being served, or its response
  faults,    \* statement failures still to be injected
  quota      \* requests still to arrive

vars == <<db, tx, idle, held, seqs, req, faults, quota>>

\* ---------------------------------------------------- transactions (server)
NoTx == [state |-> "none", keys |-> NoKeys, view |-> EmptyDB]

\* what a statement executed on connection c reads
View(c) ==
  IF tx[c].state = "open" THEN Merge(db, tx[c].view, tx[c].keys) ELSE db

\* rows written and not yet committed by the transactions of other connections
LockedByOthers(c) ==
  LET others == {d \in Conns \ {c} : tx[d].state # "none"}
  IN [lists |-> UNION {tx[d].keys.lists : d \in others},
      list_members |-> UNION {tx[d].keys.list_members : d \in others},
      tasks |-> UNION {tx[d].keys.tasks : d \in others},
      subtasks |-> UNION {tx[d].keys.subtasks : d \in others},
      tags |-> UNION {tx[d].keys.tags : d \in others},
      task_tags |-> UNION {tx[d].keys.task_tags : d \in others}]

\* a statement that would leave the view nv waits while another transaction
\* holds one of the rows it writes
Blocked(c, nv) == KeysMeet(Diff(View(c), nv), LockedByOthers(c))

\* the statement succeeds on c and leaves nv as what c reads: committed at
\* once when c has no transaction open, kept in the transaction otherwise
StmtOk(c, nv) ==
  /\ ~Blocked(c, nv)
  /\ IF tx[c].state = "open"
     THEN LET keys == KeyUnion(tx[c].keys, Diff(View(c), nv))
          IN /\ tx' = [tx EXCEPT ![c] =
                         [state |-> "open", keys |-> keys, view |-> Merge(EmptyDB, nv, keys)]]
             /\ db' = db
     ELSE /\ db' = nv
          /\ tx' = tx

\* the statement raises an error on c: nothing is written, and an open
\* transaction becomes aborted (every later statement in it fails)
StmtErr(c) ==
  /\ db' = db
  /\ tx' = [tx EXCEPT ![c].state = IF @ = "open" THEN "failed" ELSE @]

\* BEGIN on c
StmtBegin(c) ==
  /\ db' = db
  /\ tx' = [tx EXCEPT ![c] = IF @.state = "none" THEN [NoTx EXCEPT !.state = "open"] ELSE @]

\* COMMIT on c: an open transaction's rows become committed, an aborted one
\* is rolled back, and without a transaction nothing happens
StmtCommit(c) ==
  /\ db' = IF tx[c].state = "open" THEN View(c) ELSE db
  /\ tx' = [tx EXCEPT ![c] = NoTx]

\* ROLLBACK on c
StmtRollback(c) ==
  /\ db' = db
  /\ tx' = [tx EXCEPT ![c] = NoTx]

\* ------------------------------------------------------------ pool (client)
Created == Len(idle) + Cardinality(held)

\* pool.query can run now: a client is idle or one more may be created
PoolReady == idle # <<>> \/ Created < MaxConns

\* the client pool.query runs on: the most recently released idle client,
\* else a new one
PoolConn == IF idle # <<>> THEN idle[Len(idle)] ELSE Created + 1

\* pool.query checks the client out, runs the statement and releases it
PoolQuery ==
  /\ PoolReady
  /\ idle' = IF idle # <<>> THEN idle ELSE <<Created + 1>>
  /\ held' = held


\* the probe's query checks a client out ...
HealthBegin ==
  /\ PoolReady
  /\ held' = held \cup {PoolConn}
  /\ idle' = IF idle # <<>> THEN SubSeq(idle, 1, Len(idle) - 1) ELSE idle
  /\ UNCHANGED <<db, tx, seqs, req, faults, quota>>

\* ... and releases it when SELECT 1 has returned
HealthEnd ==
  /\ \E c \in held :
       /\ held' = held \ {c}
       /\ idle' = Append(idle, c)
  /\ UNCHANGED <<db, tx, seqs, req, faults, quota>>

\* ------------------------------------------------------------- SQL queries
ListLive(v, l) == l \in ListIds /\ v.lists[l].live
TaskLive(v, t) == t \in TaskIds /\ v.tasks[t].live
SubtaskLive(v, s) == s \in SubtaskIds /\ v.subtasks[s].live

\* SELECT role FROM list_members WHERE list_id = $1 AND user_id = $2
MemberRow(v, listId, userId) ==
  IF listId \in ListIds /\ userId \in Users THEN v.list_members[<<listId, userId>>] ELSE "none"

\* mutation: no user is found to be the owner
IsOwnerRow_never(v, listId, userId) == FALSE

\* mutation: an admin passes the owner check as well
IsOwnerRow_orAdmin(v, listId, userId) ==
  /\ ListLive(v, listId)
  /\ v.lists[listId].owner_id = userId \/ MemberRow(v, listId, userId) = "admin"

\* SELECT id FROM lists WHERE id = $1 AND owner_id = $2
IsOwnerRow(v, listId, userId) == ListLive(v, listId) /\ v.lists[listId].owner_id = userId

\* SELECT id, name, email FROM users WHERE email = $1  (0: no row)
UserByEmail(e) == IF e.user \in Users /\ e = UserEmail(e.user) THEN e.user ELSE 0

\* mutation: any member passes the owner-or-admin check
checkListPermission_anyMember(v, userId, listId, requireOwner) ==
  IF requireOwner
  THEN IsOwnerRow(v, listId, userId)
  ELSE /\ ListLive(v, listId)
       /\ \/ v.lists[listId].owner_id = userId
          \/ MemberRow(v, listId, userId) # "none"

checkListPermission(v, userId, listId, requireOwner) ==
  IF requireOwner
  THEN IsOwnerRow(v, listId, userId)
  ELSE /\ ListLive(v, listId)
       /\ \/ v.lists[listId].owner_id = userId
          \/ MemberRow(v, listId, userId) = "admin"

\* mutation: the delete takes every Membership row of the list
DeleteMember_wholeList(v, listId, userId) ==
  [v EXCEPT !.list_members = [k \in DOMAIN @ |-> IF k[1] = listId THEN "none" ELSE @[k]]]

\* DELETE FROM list_members WHERE list_id = $1 AND user_id = $2
DeleteMember(v, listId, userId) ==
  IF listId \in ListIds /\ userId \in Users
  THEN [v EXCEPT !.list_members[<<listId, userId>>] = "none"]
  ELSE v

\* INSERT INTO list_members (list_id, user_id, role): the primary key and the
\* foreign keys reject the row
InsertMemberViolates(v, listId, userId) ==
  \/ ~ListLive(v, listId)
  \/ userId \notin Users
  \/ MemberRow(v, listId, userId) # "none"

InsertMember(v, listId, userId, role) ==
  [v EXCEPT !.list_members[<<listId, userId>>] = role]

\* mutation: the update of the owner is lost
SetOwner_lost(v, listId, userId) == v

\* UPDATE lists SET owner_id = $1 WHERE id = $2
SetOwner(v, listId, userId) ==
  IF ListLive(v, listId) THEN [v EXCEPT !.lists[listId].owner_id = userId] ELSE v

\* ---------------------------------------------------------------- requests
\* the Authorization header of a request: no token, a token whose signature
\* does not verify, an expired one, or a valid one; userId is the user the
\* token names (MaxUsers + 1: a user whose row is gone)
Tokens == [kind : {"none", "forged", "expired", "valid"}, userId : ReqUserIds]
NoToken == [kind |-> "none", userId |-> 1]

NoData == [lists |-> {}, tasks |-> {}, subtasks |-> {}, members |-> {}, roles |-> {}]

ReqIdle ==
  [op |-> "none", pc |-> "idle", user |-> 0, list |-> 0, task |-> 0, sub |-> 0,
   target |-> 0, role |-> "", email |-> NoEmail, hasEmail |-> FALSE,
   name |-> "", title |-> "", completed |-> "undefined",
   hasTags |-> FALSE, tags |-> <<>>, cur |-> FALSE,
   status |-> 0, body |-> "", data |-> NoData, user_role |-> "",
   i |-> 0, thrownAt |-> "", pre |-> EmptyDB, token |-> NoToken]

\* res.status(status).json(...): the handler ends
Respond(q, status, body) ==
  [q EXCEPT !.pc = "done", !.status = status, !.body = body]

\* the catch block of a handler: 500
InternalError(q, at) ==
  [Respond(q, 500, "Internal server error") EXCEPT !.thrownAt = at, !.data = NoData]

SlotFree(r) == req[r].pc \in {"idle", "done"}

\* slot r can take a request that arrives
Waiting(r) == SlotFree(r) /\ quota > 0

\* a request arrives: nothing but the slot that takes it changes
Arrive ==
  /\ quota > 0
  /\ quota' = quota - 1
  /\ UNCHANGED <<db, tx, idle, held, seqs, faults>>

\* the view of the statement the pool is about to run
Seen == View(PoolConn)

\* One pool.query of request r.  `viol`: a constraint rejects the statement;
\* `nv`: the rows it leaves; the request goes on as `good`, or as `bad` when
\* the statement raised an error.  `inject`: the statement is one at which a
\* failure may be injected.
Exec(r, viol, nv, good, bad, inject) ==
  /\ PoolQuery
  /\ \E f \in (IF inject /\ faults > 0 THEN BOOLEAN ELSE {FALSE}) :
       /\ faults' = IF f THEN faults - 1 ELSE faults
       /\ IF f \/ tx[PoolConn].state = "failed" \/ viol
          THEN StmtErr(PoolConn) /\ req' = [req EXCEPT ![r] = bad]
          ELSE StmtOk(PoolConn, nv) /\ req' = [req EXCEPT ![r] = good]
  /\ quota' = quota

\* a statement that draws no id from a sequence
Stmt(r, viol, nv, good, bad, inject) ==
  Exec(r, viol, nv, good, bad, inject) /\ UNCHANGED seqs

\* a SELECT of a handler without a transaction: an error goes to its catch block
Query(r, good) ==
  Stmt(r, FALSE, Seen, good, InternalError(req[r], req[r].pc), FALSE)

\* a write of a handler without a transaction
Write(r, viol, nv, good) ==
  Stmt(r, viol, nv, good, InternalError(req[r], req[r].pc), FALSE)

\* pool.query('BEGIN')
Begin(r, good, bad) ==
  /\ PoolQuery
  /\ IF tx[PoolConn].state = "failed"
     THEN StmtErr(PoolConn) /\ req' = [req EXCEPT ![r] = bad]
     ELSE StmtBegin(PoolConn) /\ req' = [req EXCEPT ![r] = good]
  /\ UNCHANGED <<seqs, faults, quota>>

\* pool.query('COMMIT')
Commit(r, good) ==
  /\ PoolQuery
  /\ StmtCommit(PoolConn)
  /\ req' = [req EXCEPT ![r] = good]
  /\ UNCHANGED <<seqs, faults, quota>>

\* pool.query('ROLLBACK') in the inner catch block, then the outer one: 500
Rollback(r) ==
  /\ PoolQuery
  /\ StmtRollback(PoolConn)
  /\ req' = [req EXCEPT ![r] = Respond(req[r], 500, "Internal server error")]
  /\ UNCHANGED <<seqs, faults, quota>>

\* a request enters its handler
Accept(r, q) ==
  /\ req' = [req EXCEPT ![r] = [q EXCEPT !.pre = db]]
  /\ Arrive

\* ------------------------------------------ PUT /lists/:listId/transfer-ownership
StartTransferOwnership(r) ==
  /\ Waiting(r)
  /\ \E u \in Users, l \in ReqListIds, e \in Emails, has \in BOOLEAN :
    LET q == [ReqIdle EXCEPT !.op = "transferOwnership", !.user = u, !.list = l,
                             !.email = e, !.hasEmail = has]
    IN /\ has \/ e = NoEmail
       /\ Accept(r, IF ~has THEN Respond(q, 400, "Email is required")
                    ELSE [q EXCEPT !.pc = "tr_owner"])

TransferOwnership(r) ==
  LET q == req[r]
      thrown == [q EXCEPT !.pc = "tr_rollback", !.thrownAt = q.pc]
  IN
  /\ q.op = "transferOwnership"
  /\ \/ /\ q.pc = "tr_owner"
        /\ Query(r, IF checkListPermission(Seen, q.user, q.list, TRUE)
                    THEN [q EXCEPT !.pc = "tr_find"]
                    ELSE Respond(q, 403, "Permission denied - only list owners can transfer ownership"))
     \/ /\ q.pc = "tr_find"
        /\ LET newOwner == UserByEmail(emailToLowerCase(q.email)) IN
           Query(r, IF newOwner = 0
                    THEN Respond(q, 404, "User not found with this email address")
                    ELSE IF newOwner = q.user
                    THEN Respond(q, 400, "You are already the owner of this list")
                    ELSE [q EXCEPT !.pc = "tr_begin", !.target = newOwner])
     \/ /\ q.pc = "tr_begin"
        /\ Begin(r, [q EXCEPT !.pc = "tr_delete"], InternalError(q, q.pc))
     \/ /\ q.pc = "tr_delete"
        /\ Stmt(r, FALSE, DeleteMember(Seen, q.list, q.target),
                [q EXCEPT !.pc = "tr_insert"], thrown, TRUE)
     \/ /\ q.pc = "tr_insert"
        /\ Stmt(r, InsertMemberViolates(Seen, q.list, q.user),
                InsertMember(Seen, q.list, q.user, "admin"),
                [q EXCEPT !.pc = "tr_update"], thrown, TRUE)
     \/ /\ q.pc = "tr_update"
        /\ Stmt(r, FALSE, SetOwner(Seen, q.list, q.target),
                [q EXCEPT !.pc = "tr_commit"], thrown, TRUE)
     \/ /\ q.pc = "tr_commit"
        /\ Commit(r, Respond(q, 200, "Ownership transferred successfully"))
     \/ /\ q.pc = "tr_rollback"
        /\ Rollback(r)

\* mutation: every existing list can be read
AccessRow_anyList(v, userId, listId) == ListLive(v, listId)

\* ------------------------------------------------ SQL of the list routes
\* ... WHERE l.id = $2 AND (l.owner_id = $1 OR lm.user_id = $1): a row comes back
AccessRow(v, userId, listId) ==
  /\ ListLive(v, listId)
  /\ \/ v.lists[listId].owner_id = userId
     \/ MemberRow(v, listId, userId) # "none"

\* CASE WHEN l.owner_id = $1 THEN 'owner' WHEN lm.role IS NOT NULL THEN lm.role
user_role(v, userId, listId) ==
  IF v.lists[listId].owner_id = userId THEN "owner" ELSE MemberRow(v, listId, userId)

\* mutation: any member passes the rename check
AdminRow_anyMember(v, userId, listId) ==
  /\ ListLive(v, listId)
  /\ \/ v.lists[listId].owner_id = userId
     \/ MemberRow(v, listId, userId) # "none"

\* ... WHERE l.id = $2 AND (l.owner_id = $1 OR lm.role = 'admin')
AdminRow(v, userId, listId) ==
  /\ ListLive(v, listId)
  /\ \/ v.lists[listId].owner_id = userId
     \/ MemberRow(v, listId, userId) = "admin"

TasksOf(v, listId) == {t \in TaskIds : v.tasks[t].live /\ v.tasks[t].list_id = listId}
SubtasksOf(v, tasks) == {s \in SubtaskIds : v.subtasks[s].live /\ v.subtasks[s].task_id \in tasks}

\* the owner and the members of a list, each with the role reported
MembersOf(v, listId) ==
  {<<v.lists[listId].owner_id, "owner">>}
    \cup {<<u, v.list_members[<<listId, u>>]>> : u \in {w \in Users : v.list_members[<<listId, w>>] # "none"}}

\* mutation: the creator gets a Membership row on the new list
InsertList_withMembership(v, id, name, userId) ==
  [v EXCEPT !.lists[id] = [live |-> TRUE, name |-> name, owner_id |-> userId],
            !.list_members[<<id, userId>>] = "admin"]

\* INSERT INTO lists (name, owner_id) VALUES ($1, $2): the row gets the id `id`
InsertList(v, id, name, userId) ==
  [v EXCEPT !.lists[id] = [live |-> TRUE, name |-> name, owner_id |-> userId]]

\* mutation: the rename hands the list to the last user as well
SetListName_andOwner(v, listId, name) ==
  IF ListLive(v, listId)
  THEN [v EXCEPT !.lists[listId].name = name, !.lists[listId].owner_id = MaxUsers]
  ELSE v

\* UPDATE lists SET name = $1 WHERE id = $2
SetListName(v, listId, name) ==
  IF ListLive(v, listId) THEN [v EXCEPT !.lists[listId].name = name] ELSE v

\* mutation: the delete takes the tags of the tasks as well
DeleteTasks_withTags(v, gone) ==
  [v EXCEPT !.tasks = [t \in TaskIds |-> IF t \in gone THEN NoTask ELSE @[t]],
            !.subtasks = [s \in SubtaskIds |->
                            IF @[s].live /\ @[s].task_id \in gone THEN NoSubtask ELSE @[s]],
            !.task_tags = {k \in @ : k[1] \notin gone},
            !.tags = @ \ {k[2] : k \in {j \in v.task_tags : j[1] \in gone}}]

\* DELETE FROM tasks WHERE id in `gone`, with ON DELETE CASCADE to subtasks and task_tags
DeleteTasks(v, gone) ==
  [v EXCEPT !.tasks = [t \in TaskIds |-> IF t \in gone THEN NoTask ELSE @[t]],
            !.subtasks = [s \in SubtaskIds |->
                            IF @[s].live /\ @[s].task_id \in gone THEN NoSubtask ELSE @[s]],
            !.task_tags = {k \in @ : k[1] \notin gone}]

\* mutation: the delete takes the tasks of every list
DeleteListRow_everyTask(v, listId) ==
  IF ~ListLive(v, listId) THEN v
  ELSE [DeleteTasks(v, {t \in TaskIds : v.tasks[t].live}) EXCEPT
          !.lists[listId] = NoList,
          !.list_members = [k \in ListIds \X Users |-> IF k[1] = listId THEN "none" ELSE @[k]]]

\* DELETE FROM lists WHERE id = $1, with ON DELETE CASCADE to list_members and tasks
DeleteListRow(v, listId) ==
  IF ~ListLive(v, listId) THEN v
  ELSE [DeleteTasks(v, TasksOf(v, listId)) EXCEPT
          !.lists[listId] = NoList,
          !.list_members = [k \in ListIds \X Users |-> IF k[1] = listId THEN "none" ELSE @[k]]]

\* ------------------------------------------------------------ GET /lists
\* SELECT DISTINCT l.id, ..., lm.role as user_role FROM lists l ... LEFT JOIN
\* list_members lm ON ... WHERE l.owner_id = $1 OR lm.user_id = $1: the rows,
\* each the id of a list with the user_role reported ("none": NULL)
AccessibleLists(v, userId) ==
  {<<l, MemberRow(v, l, userId)>> : l \in {k \in ListIds : AccessRow(v, userId, k)}}

StartListAccessibleLists(r) ==
  /\ Waiting(r)
  /\ \E u \in Users :
    Accept(r, [ReqIdle EXCEPT !.op = "listAccessibleLists", !.pc = "read", !.user = u])

ListAccessibleLists(r) ==
  LET q == req[r]
      rows == AccessibleLists(Seen, q.user)
  IN
  /\ q.op = "listAccessibleLists"
  /\ q.pc = "read"
  /\ Query(r, [Respond(q, 200, "") EXCEPT
                 !.data.lists = {row[1] : row \in rows}, !.data.roles = rows])

\* ---------------------------------------------------------- POST /lists
StartCreateList(r) ==
  /\ Waiting(r)
  /\ seqs.lists < MaxLists
  /\ \E u \in Users, n \in ListNames :
       Accept(r, [ReqIdle EXCEPT !.op = "createList", !.pc = "insert", !.user = u, !.name = n])

CreateList(r) ==
  LET q == req[r]
      id == seqs.lists + 1
  IN
  /\ q.op = "createList"
  /\ q.pc = "insert"
  /\ Exec(r, FALSE, InsertList(Seen, id, q.name, q.user),
          [Respond(q, 201, "List created successfully") EXCEPT
             !.list = id, !.data = [NoData EXCEPT !.lists = {id}]],
          InternalError(q, q.pc), FALSE)
  /\ seqs' = [seqs EXCEPT !.lists = id]

\* ------------------------------------------------------- GET /lists/:id
StartGetListWithContents(r) ==
  /\ Waiting(r)
  /\ \E u \in Users, l \in ReqListIds :
    Accept(r, [ReqIdle EXCEPT !.op = "getListWithContents", !.pc = "access",
                              !.user = u, !.list = l])

GetListWithContents(r) ==
  LET q == req[r] IN
  /\ q.op = "getListWithContents"
  /\ \/ /\ q.pc = "access"
        /\ Query(r, IF AccessRow(Seen, q.user, q.list)
                    THEN [q EXCEPT !.pc = "tasks", !.data = [NoData EXCEPT !.lists = {q.list}],
                                   !.user_role = user_role(Seen, q.user, q.list)]
                    ELSE Respond(q, 404, "List not found or access denied"))
     \/ /\ q.pc = "tasks"
        /\ LET got == [q EXCEPT !.data.tasks = TasksOf(Seen, q.list)] IN
           Query(r, IF got.data.tasks # {}
                    THEN [got EXCEPT !.pc = "subtasks"]
                    ELSE Respond(got, 200, ""))
     \/ /\ q.pc = "subtasks"
        /\ Query(r, [Respond(q, 200, "") EXCEPT !.data.subtasks = SubtasksOf(Seen, q.data.tasks)])

\* ------------------------------------------------------- PUT /lists/:id
StartRenameList(r) ==
  /\ Waiting(r)
  /\ \E u \in Users, l \in ReqListIds, n \in ListNames :
    Accept(r, [ReqIdle EXCEPT !.op = "renameList", !.pc = "access",
                              !.user = u, !.list = l, !.name = n])

RenameList(r) ==
  LET q == req[r] IN
  /\ q.op = "renameList"
  /\ \/ /\ q.pc = "access"
        /\ Query(r, IF AdminRow(Seen, q.user, q.list)
                    THEN [q EXCEPT !.pc = "write"]
                    ELSE Respond(q, 403, "Permission denied - only owners and admins can update lists"))
     \/ /\ q.pc = "write"
        /\ Write(r, FALSE, SetListName(Seen, q.list, q.name),
                 [Respond(q, 200, "List updated successfully") EXCEPT
                    !.data.lists = IF ListLive(Seen, q.list) THEN {q.list} ELSE {}])

\* ---------------------------------------------------- DELETE /lists/:id
StartDeleteList(r) ==
  /\ Waiting(r)
  /\ \E u \in Users, l \in ReqListIds :
    Accept(r, [ReqIdle EXCEPT !.op = "deleteList", !.pc = "access", !.user = u, !.list = l])

DeleteList(r) ==
  LET q == req[r] IN
  /\ q.op = "deleteList"
  /\ \/ /\ q.pc = "access"
        /\ Query(r, IF IsOwnerRow(Seen, q.list, q.user)
                    THEN [q EXCEPT !.pc = "write"]
                    ELSE Respond(q, 403, "Permission denied - only list owners can delete lists"))
     \/ /\ q.pc = "write"
        /\ Write(r, FALSE, DeleteListRow(Seen, q.list), Respond(q, 200, "List deleted successfully"))

\* ------------------------------------------- GET /lists/:listId/members
StartListMembers(r) ==
  /\ Waiting(r)
  /\ \E u \in Users, l \in ReqListIds :
    Accept(r, [ReqIdle EXCEPT !.op = "listMembers", !.pc = "access", !.user = u, !.list = l])

ListMembers(r) ==
  LET q == req[r] IN
  /\ q.op = "listMembers"
  /\ \/ /\ q.pc = "access"
        /\ Query(r, IF AccessRow(Seen, q.user, q.list)
                    THEN [q EXCEPT !.pc = "read"]
                    ELSE Respond(q, 404, "List not found or access denied"))
     \/ /\ q.pc = "read"
        /\ Query(r, [Respond(q, 200, "") EXCEPT
                       !.data.members = IF ListLive(Seen, q.list)
                                        THEN MembersOf(Seen, q.list) ELSE {}])

\* ------------------------------------------ POST /lists/:listId/members
\* mutation: the role of the body is not checked
validateListMember_anyRole(hasEmail, role) == hasEmail

\* body('email').isEmail(), body('role').optional().isIn(['member', 'admin'])
validateListMember(hasEmail, role) == hasEmail /\ role \in Roles \cup {""}

\* handleValidationErrors on a failed validation
ValidationFailed(q) == Respond(q, 400, "Validation failed")

\* validateListMember has normalised the address and checks the role; the
\* handler reads const { email, role = 'member' } = req.body ("": no role given)
StartAddMember(r) ==
  /\ Waiting(r)
  /\ \E u \in Users, l \in ReqListIds, e \in {a \in Emails : ~a.upper}, ro \in Roles \cup {"", "owner"} :
    LET q == [ReqIdle EXCEPT !.op = "addMember", !.user = u, !.list = l,
                             !.email = e, !.hasEmail = TRUE,
                             !.role = IF ro = "" THEN "member" ELSE ro]
    IN Accept(r, IF validateListMember(TRUE, ro)
                 THEN [q EXCEPT !.pc = "access"]
                 ELSE ValidationFailed(q))

AddMember(r) ==
  LET q == req[r] IN
  /\ q.op = "addMember"
  /\ \/ /\ q.pc = "access"
        /\ Query(r, IF checkListPermission(Seen, q.user, q.list, FALSE)
                    THEN [q EXCEPT !.pc = "find"]
                    ELSE Respond(q, 403, "Permission denied - only list owners and admins can add members"))
     \/ /\ q.pc = "find"
        /\ Query(r, IF UserByEmail(q.email) = 0
                    THEN Respond(q, 404, "User not found with this email address")
                    ELSE [q EXCEPT !.pc = "owner", !.target = UserByEmail(q.email)])
     \/ /\ q.pc = "owner"
        /\ Query(r, IF IsOwnerRow(Seen, q.list, q.target)
                    THEN Respond(q, 409, "User is already the owner of this list")
                    ELSE [q EXCEPT !.pc = "member"])
     \/ /\ q.pc = "member"
        /\ Query(r, IF MemberRow(Seen, q.list, q.target) # "none"
                    THEN Respond(q, 409, "User is already a member of this list")
                    ELSE [q EXCEPT !.pc = "write"])
     \/ /\ q.pc = "write"
        /\ Write(r, InsertMemberViolates(Seen, q.list, q.target),
                 InsertMember(Seen, q.list, q.target, q.role),
                 [Respond(q, 201, "Member added successfully") EXCEPT !.data.members = {<<q.target, q.role>>}])

\* ----------------------------------- PUT /lists/:listId/members/:userId
StartUpdateMemberRole(r) ==
  /\ Waiting(r)
  /\ \E u \in Users, l \in ReqListIds, t \in ReqUserIds, ro \in Roles \cup {"", "owner"} :
    LET q == [ReqIdle EXCEPT !.op = "updateMemberRole", !.user = u, !.list = l,
                             !.target = t, !.role = ro]
    IN Accept(r, IF ro \notin {"member", "admin"}
                 THEN Respond(q, 400, "Role must be either \"member\" or \"admin\"")
                 ELSE [q EXCEPT !.pc = "access"])

\* UPDATE list_members SET role = $1 WHERE list_id = $2 AND user_id = $3
SetMemberRole(v, listId, userId, role) ==
  IF MemberRow(v, listId, userId) # "none"
  THEN [v EXCEPT !.list_members[<<listId, userId>>] = role]
  ELSE v

UpdateMemberRole(r) ==
  LET q == req[r] IN
  /\ q.op = "updateMemberRole"
  /\ \/ /\ q.pc = "access"
        /\ Query(r, IF checkListPermission(Seen, q.user, q.list, FALSE)
                    THEN [q EXCEPT !.pc = "member"]
                    ELSE Respond(q, 403, "Permission denied - only list owners and admins can update member roles"))
     \/ /\ q.pc = "member"
        /\ Query(r, IF MemberRow(Seen, q.list, q.target) = "none"
                    THEN Respond(q, 404, "User is not a member of this list")
                    ELSE [q EXCEPT !.pc = "write"])
     \/ /\ q.pc = "write"
        /\ Write(r, FALSE, SetMemberRole(Seen, q.list, q.target, q.role),
                 Respond(q, 200, "Member role updated successfully"))

\* -------------------------------- DELETE /lists/:listId/members/:userId
StartRemoveMember(r) ==
  /\ Waiting(r)
  /\ \E u \in Users, l \in ReqListIds, t \in ReqUserIds :
    Accept(r, [ReqIdle EXCEPT !.op = "removeMember", !.pc = "access", !.user = u, !.list = l,
                              !.target = t])

RemoveMember(r) ==
  LET q == req[r] IN
  /\ q.op = "removeMember"
  /\ \/ /\ q.pc = "access"
        /\ Query(r, IF checkListPermission(Seen, q.user, q.list, FALSE)
                    THEN [q EXCEPT !.pc = "owner"]
                    ELSE Respond(q, 403, "Permission denied - only list owners and admins can remove members"))
     \/ /\ q.pc = "owner"
        /\ Query(r, IF IsOwnerRow(Seen, q.list, q.target)
                    THEN Respond(q, 400, "Cannot remove the list owner")
                    ELSE [q EXCEPT !.pc = "write"])
     \/ /\ q.pc = "write"
        /\ Write(r, FALSE, DeleteMember(Seen, q.list, q.target),
                 IF MemberRow(Seen, q.list, q.target) = "none"
                 THEN Respond(q, 404, "User is not a member of this list")
                 ELSE Respond(q, 200, "Member removed successfully"))

\* ------------------------------------------ DELETE /lists/:listId/leave
StartLeaveList(r) ==
  /\ Waiting(r)
  /\ \E u \in Users, l \in ReqListIds :
    Accept(r, [ReqIdle EXCEPT !.op = "leaveList", !.pc = "owner", !.user = u, !.list = l])

LeaveList(r) ==
  LET q == req[r] IN
  /\ q.op = "leaveList"
  /\ \/ /\ q.pc = "owner"
        /\ Query(r, IF IsOwnerRow(Seen, q.list, q.user)
                    THEN Respond(q, 400, "List owners cannot leave their own lists. Transfer ownership or delete the list instead.")
                    ELSE [q EXCEPT !.pc = "write"])
     \/ /\ q.pc = "write"
        /\ Write(r, FALSE, DeleteMember(Seen, q.list, q.user),
                 IF MemberRow(Seen, q.list, q.user) = "none"
                 THEN Respond(q, 404, "You are not a member of this list")
                 ELSE Respond(q, 200, "Successfully left the list"))

\* ------------------------------------------------ SQL of the task routes
\* mutation: any principal has access to a list that is there
checkListAccess_anyUser(v, userId, listId) == ListLive(v, listId)

checkListAccess(v, userId, listId) == AccessRow(v, userId, listId)

\* INSERT INTO tasks (list_id, title, ...): the row gets the id `id`
InsertTask(v, id, listId, title) ==
  [v EXCEPT !.tasks[id] = [live |-> TRUE, list_id |-> listId, title |-> title, completed |-> FALSE]]

\* UPDATE tasks SET title = $1, ..., completed = $5 WHERE id = $6
UpdateTaskRow(v, taskId, title, completed) ==
  IF TaskLive(v, taskId)
  THEN [v EXCEPT !.tasks[taskId].title = title, !.tasks[taskId].completed = completed]
  ELSE v

\* mutation: the update negates the stored value (completed = NOT completed)
SetTaskCompleted_inPlace(v, taskId, completed) ==
  IF TaskLive(v, taskId) THEN [v EXCEPT !.tasks[taskId].completed = ~@] ELSE v

\* mutation: the update writes the value it read
SetTaskCompleted_same(v, taskId, completed) ==
  IF TaskLive(v, taskId) THEN [v EXCEPT !.tasks[taskId].completed = ~completed] ELSE v

\* UPDATE tasks SET completed = $1 WHERE id = $2
SetTaskCompleted(v, taskId, completed) ==
  IF TaskLive(v, taskId) THEN [v EXCEPT !.tasks[taskId].completed = completed] ELSE v

\* INSERT INTO subtasks (task_id, title): the row gets the id `id`
InsertSubtask(v, id, taskId, title) ==
  [v EXCEPT !.subtasks[id] = [live |-> TRUE, task_id |-> taskId, title |-> title, completed |-> FALSE]]

\* UPDATE subtasks SET title = $1, completed = $2 WHERE id = $3
UpdateSubtaskRow(v, subtaskId, title, completed) ==
  IF SubtaskLive(v, subtaskId)
  THEN [v EXCEPT !.subtasks[subtaskId].title = title, !.subtasks[subtaskId].completed = completed]
  ELSE v

\* mutation: completing a subtask completes its task
SetSubtaskCompleted_cascade(v, subtaskId, completed) ==
  IF SubtaskLive(v, subtaskId)
  THEN [v EXCEPT !.subtasks[subtaskId].completed = completed,
                 !.tasks[v.subtasks[subtaskId].task_id].completed = completed]
  ELSE v

\* UPDATE subtasks SET completed = $1 WHERE id = $2
SetSubtaskCompleted(v, subtaskId, completed) ==
  IF SubtaskLive(v, subtaskId) THEN [v EXCEPT !.subtasks[subtaskId].completed = completed] ELSE v

\* DELETE FROM subtasks WHERE id = $1
DeleteSubtaskRow(v, subtaskId) ==
  IF SubtaskLive(v, subtaskId) THEN [v EXCEPT !.subtasks[subtaskId] = NoSubtask] ELSE v

\* INSERT INTO tags (name) VALUES ($1) ON CONFLICT (name) DO UPDATE ...: a tag
\* row is known by its name, which is unique
UpsertTag(v, name) == [v EXCEPT !.tags = @ \cup {name}]

\* INSERT INTO task_tags (task_id, tag_id): the foreign keys reject the row
LinkViolates(v, taskId, name) == ~TaskLive(v, taskId) \/ name \notin v.tags

LinkTag(v, taskId, name) == [v EXCEPT !.task_tags = @ \cup {<<taskId, name>>}]

\* DELETE FROM task_tags WHERE task_id = $1
UnlinkTags(v, taskId) == [v EXCEPT !.task_tags = {k \in @ : k[1] # taskId}]

TagsOf(v, taskId) == {k[2] : k \in {j \in v.task_tags : j[1] = taskId}}

\* the JavaScript value of body.completed
ToBool(c) == c = "true"

\* ---- the first two statements of every handler that names a task or a subtask
\* SELECT ... FROM tasks WHERE id = $1
FindTask(r) ==
  LET q == req[r] IN
  Query(r, IF TaskLive(Seen, q.task)
           THEN [q EXCEPT !.pc = "access", !.list = Seen.tasks[q.task].list_id,
                          !.cur = Seen.tasks[q.task].completed]
           ELSE Respond(q, 404, "Task not found"))

\* SELECT s.*, t.list_id FROM subtasks s JOIN tasks t ON s.task_id = t.id WHERE s.id = $1
FindSubtask(r) ==
  LET q == req[r] IN
  Query(r, IF SubtaskLive(Seen, q.sub) /\ TaskLive(Seen, Seen.subtasks[q.sub].task_id)
           THEN [q EXCEPT !.pc = "access", !.task = Seen.subtasks[q.sub].task_id,
                          !.list = Seen.tasks[Seen.subtasks[q.sub].task_id].list_id,
                          !.cur = Seen.subtasks[q.sub].completed]
           ELSE Respond(q, 404, "Subtask not found"))

\* const listAccess = await checkListAccess(req.user.id, task.list_id)
CheckAccess(r, denied, next) ==
  LET q == req[r] IN
  Query(r, IF checkListAccess(Seen, q.user, q.list)
           THEN [q EXCEPT !.pc = next]
           ELSE Respond(q, 404, denied))

\* ------------------------------------------------ GET /tasks/list/:listId
StartListTasks(r) ==
  /\ Waiting(r)
  /\ \E u \in Users, l \in ReqListIds :
    Accept(r, [ReqIdle EXCEPT !.op = "listTasks", !.pc = "access", !.user = u, !.list = l])

ListTasks(r) ==
  LET q == req[r] IN
  /\ q.op = "listTasks"
  /\ \/ /\ q.pc = "access"
        /\ CheckAccess(r, "List not found or access denied", "read")
     \/ /\ q.pc = "read"
        /\ Query(r, [Respond(q, 200, "") EXCEPT !.data.tasks = TasksOf(Seen, q.list)])

\* --------------------------------------------------------- GET /tasks/:id
StartGetTask(r) ==
  /\ Waiting(r)
  /\ \E u \in Users, t \in ReqTaskIds :
    Accept(r, [ReqIdle EXCEPT !.op = "getTask", !.pc = "find", !.user = u, !.task = t])

GetTask(r) ==
  LET q == req[r] IN
  /\ q.op = "getTask"
  /\ \/ /\ q.pc = "find"
        /\ FindTask(r)
     \/ /\ q.pc = "access"
        /\ CheckAccess(r, "Task not found or access denied", "read")
     \/ /\ q.pc = "read"
        /\ Query(r, [Respond(q, 200, "") EXCEPT
                       !.data.tasks = {q.task}, !.data.subtasks = SubtasksOf(Seen, {q.task})])

\* ------------------------------------------------ PATCH /tasks/:id/toggle
StartToggleTask(r) ==
  /\ Waiting(r)
  /\ \E u \in Users, t \in ReqTaskIds :
    Accept(r, [ReqIdle EXCEPT !.op = "toggleTask", !.pc = "find", !.user = u, !.task = t])

ToggleTask(r) ==
  LET q == req[r] IN
  /\ q.op = "toggleTask"
  /\ \/ /\ q.pc = "find"
        /\ FindTask(r)
     \/ /\ q.pc = "access"
        /\ CheckAccess(r, "Task not found or access denied", "write")
     \/ /\ q.pc = "write"
        /\ Write(r, FALSE, SetTaskCompleted(Seen, q.task, ~q.cur),
                 [Respond(q, 200, "Task completion toggled successfully") EXCEPT
                    !.data.tasks = IF TaskLive(Seen, q.task) THEN {q.task} ELSE {}])

\* ------------------------------------------------------ DELETE /tasks/:id
StartDeleteTask(r) ==
  /\ Waiting(r)
  /\ \E u \in Users, t \in ReqTaskIds :
    Accept(r, [ReqIdle EXCEPT !.op = "deleteTask", !.pc = "find", !.user = u, !.task = t])

DeleteTask(r) ==
  LET q == req[r] IN
  /\ q.op = "deleteTask"
  /\ \/ /\ q.pc = "find"
        /\ FindTask(r)
     \/ /\ q.pc = "access"
        /\ CheckAccess(r, "Task not found or access denied", "write")
     \/ /\ q.pc = "write"
        /\ Write(r, FALSE, DeleteTasks(Seen, {q.task}), Respond(q, 200, "Task deleted successfully"))

\* ------------------------------------------- POST /tasks/:taskId/subtasks
StartCreateSubtask(r) ==
  /\ Waiting(r)
  /\ seqs.subtasks < MaxSubtasks
  /\ \E u \in Users, t \in ReqTaskIds, ti \in Titles :
       Accept(r, [ReqIdle EXCEPT !.op = "createSubtask", !.pc = "find", !.user = u,
                                 !.task = t, !.title = ti])

CreateSubtask(r) ==
  LET q == req[r]
      id == seqs.subtasks + 1
  IN
  /\ q.op = "createSubtask"
  /\ \/ /\ q.pc = "find"
        /\ FindTask(r)
     \/ /\ q.pc = "access"
        /\ CheckAccess(r, "Task not found or access denied", "write")
     \/ /\ q.pc = "write"
        /\ Exec(r, ~TaskLive(Seen, q.task), InsertSubtask(Seen, id, q.task, q.title),
                [Respond(q, 201, "Subtask created successfully") EXCEPT
                   !.sub = id, !.data.subtasks = {id}],
                InternalError(q, q.pc), FALSE)
        /\ seqs' = [seqs EXCEPT !.subtasks = id]

\* --------------------------------------- PUT /tasks/subtasks/:subtaskId
StartUpdateSubtask(r) ==
  /\ Waiting(r)
  /\ \E u \in Users, sb \in ReqSubtaskIds, ti \in Titles, c \in Completed :
    Accept(r, [ReqIdle EXCEPT !.op = "updateSubtask", !.pc = "find", !.user = u,
                              !.sub = sb, !.title = ti, !.completed = c])

UpdateSubtask(r) ==
  LET q == req[r] IN
  /\ q.op = "updateSubtask"
  /\ \/ /\ q.pc = "find"
        /\ FindSubtask(r)
     \/ /\ q.pc = "access"
        /\ CheckAccess(r, "Subtask not found or access denied", "write")
     \/ /\ q.pc = "write"
        /\ Write(r, FALSE,
                 UpdateSubtaskRow(Seen, q.sub, q.title,
                                  IF q.completed # "undefined" THEN ToBool(q.completed) ELSE q.cur),
                 [Respond(q, 200, "Subtask updated successfully") EXCEPT
                    !.data.subtasks = IF SubtaskLive(Seen, q.sub) THEN {q.sub} ELSE {}])

\* -------------------------------- PATCH /tasks/subtasks/:subtaskId/toggle
StartToggleSubtask(r) ==
  /\ Waiting(r)
  /\ \E u \in Users, sb \in ReqSubtaskIds :
    Accept(r, [ReqIdle EXCEPT !.op = "toggleSubtask", !.pc = "find", !.user = u, !.sub = sb])

ToggleSubtask(r) ==
  LET q == req[r] IN
  /\ q.op = "toggleSubtask"
  /\ \/ /\ q.pc = "find"
        /\ FindSubtask(r)
     \/ /\ q.pc = "access"
        /\ CheckAccess(r, "Subtask not found or access denied", "write")
     \/ /\ q.pc = "write"
        /\ Write(r, FALSE, SetSubtaskCompleted(Seen, q.sub, ~q.cur),
                 [Respond(q, 200, "Subtask completion toggled successfully") EXCEPT
                    !.data.subtasks = IF SubtaskLive(Seen, q.sub) THEN {q.sub} ELSE {}])

\* ------------------------------------ DELETE /tasks/subtasks/:subtaskId
StartDeleteSubtask(r) ==
  /\ Waiting(r)
  /\ \E u \in Users, sb \in ReqSubtaskIds :
    Accept(r, [ReqIdle EXCEPT !.op = "deleteSubtask", !.pc = "find", !.user = u, !.sub = sb])

DeleteSubtask(r) ==
  LET q == req[r] IN
  /\ q.op = "deleteSubtask"
  /\ \/ /\ q.pc = "find"
        /\ FindSubtask(r)
     \/ /\ q.pc = "access"
        /\ CheckAccess(r, "Subtask not found or access denied", "write")
     \/ /\ q.pc = "write"
        /\ Write(r, FALSE, DeleteSubtaskRow(Seen, q.sub), Respond(q, 200, "Subtask deleted successfully"))

\* ------------------------------------------------------------ POST /tasks
StartCreateTask(r) ==
  /\ Waiting(r)
  /\ seqs.tasks < MaxTasks
  /\ \E u \in Users, l \in ReqListIds, ti \in Titles, has \in BOOLEAN, tg \in TagLists :
       /\ has \/ tg = <<>>
       /\ Accept(r, [ReqIdle EXCEPT !.op = "createTask", !.pc = "access", !.user = u, !.list = l,
                                    !.title = ti, !.hasTags = has, !.tags = tg])

CreateTask(r) ==
  LET q == req[r]
      id == seqs.tasks + 1
      name == toLowerCase(trim(q.tags[q.i]))
      thrown == [q EXCEPT !.pc = "rollback", !.thrownAt = q.pc]
      \* for (const tagName of tags): the next name, or the end of the loop
      loop(i) == IF q.hasTags /\ i <= Len(q.tags)
                 THEN [q EXCEPT !.pc = "tag", !.i = i]
                 ELSE [q EXCEPT !.pc = "commit"]
  IN
  /\ q.op = "createTask"
  /\ \/ /\ q.pc = "access"
        /\ CheckAccess(r, "List not found or access denied", "begin")
     \/ /\ q.pc = "begin"
        /\ Begin(r, [q EXCEPT !.pc = "insert"], InternalError(q, q.pc))
     \/ /\ q.pc = "insert"
        /\ Exec(r, ~ListLive(Seen, q.list), InsertTask(Seen, id, q.list, q.title),
                [loop(1) EXCEPT !.task = id], thrown, FALSE)
        /\ seqs' = [seqs EXCEPT !.tasks = id]
     \/ /\ q.pc = "tag"
        /\ Stmt(r, FALSE, UpsertTag(Seen, name), [q EXCEPT !.pc = "link"], thrown, TRUE)
     \/ /\ q.pc = "link"
        \* ... ON CONFLICT DO NOTHING
        /\ Stmt(r, LinkViolates(Seen, q.task, name), LinkTag(Seen, q.task, name),
                loop(q.i + 1), thrown, TRUE)
     \/ /\ q.pc = "commit"
        /\ Commit(r, [q EXCEPT !.pc = "final"])
     \/ /\ q.pc = "final"
        \* finalTaskResult.rows[0].tags throws when the row is not there
        /\ Stmt(r, FALSE, Seen,
                IF TaskLive(Seen, q.task)
                THEN [Respond(q, 201, "Task created successfully") EXCEPT !.data.tasks = {q.task}]
                ELSE thrown,
                thrown, TRUE)
     \/ /\ q.pc = "rollback"
        /\ Rollback(r)

\* --------------------------------------------------------- PUT /tasks/:id
StartUpdateTask(r) ==
  /\ Waiting(r)
  /\ \E u \in Users, t \in ReqTaskIds, ti \in Titles, c \in Completed, has \in BOOLEAN, tg \in TagLists :
    /\ has \/ tg = <<>>
    /\ Accept(r, [ReqIdle EXCEPT !.op = "updateTask", !.pc = "find", !.user = u, !.task = t,
                                 !.title = ti, !.completed = c, !.hasTags = has, !.tags = tg])

\* if (tagName && tagName.trim()): the first name kept from position i on
RECURSIVE NextKept(_, _)
NextKept(tags, i) ==
  IF i > Len(tags) \/ (tags[i] # <<>> /\ trim(tags[i]) # <<>>) THEN i ELSE NextKept(tags, i + 1)

UpdateTask(r) ==
  LET q == req[r]
      name == toLowerCase(trim(q.tags[q.i]))
      thrown == [q EXCEPT !.pc = "rollback", !.thrownAt = q.pc]
      loop(i) == IF NextKept(q.tags, i) <= Len(q.tags)
                 THEN [q EXCEPT !.pc = "tag", !.i = NextKept(q.tags, i)]
                 ELSE [q EXCEPT !.pc = "commit"]
  IN
  /\ q.op = "updateTask"
  /\ \/ /\ q.pc = "find"
        /\ FindTask(r)
     \/ /\ q.pc = "access"
        /\ CheckAccess(r, "Task not found or access denied", "begin")
     \/ /\ q.pc = "begin"
        /\ Begin(r, [q EXCEPT !.pc = "write"], InternalError(q, q.pc))
     \/ /\ q.pc = "write"
        \* completed !== undefined ? completed : false
        /\ Stmt(r, FALSE,
                UpdateTaskRow(Seen, q.task, q.title,
                              IF q.completed # "undefined" THEN ToBool(q.completed) ELSE FALSE),
                [q EXCEPT !.pc = IF q.hasTags THEN "unlink" ELSE "commit"], thrown, FALSE)
     \/ /\ q.pc = "unlink"
        /\ Stmt(r, FALSE, UnlinkTags(Seen, q.task), loop(1), thrown, TRUE)
     \/ /\ q.pc = "tag"
        /\ Stmt(r, FALSE, UpsertTag(Seen, name), [q EXCEPT !.pc = "link"], thrown, TRUE)
     \/ /\ q.pc = "link"
        \* no ON CONFLICT clause: the primary key rejects a link that is there
        /\ Stmt(r, LinkViolates(Seen, q.task, name) \/ <<q.task, name>> \in Seen.task_tags,
                LinkTag(Seen, q.task, name), loop(q.i + 1), thrown, TRUE)
     \/ /\ q.pc = "commit"
        /\ Commit(r, [q EXCEPT !.pc = "final"])
     \/ /\ q.pc = "final"
        \* finalTaskResult.rows[0].tags throws when the row is not there
        /\ Stmt(r, FALSE, Seen,
                IF TaskLive(Seen, q.task)
                THEN [Respond(q, 200, "Task updated successfully") EXCEPT !.data.tasks = {q.task}]
                ELSE thrown,
                thrown, TRUE)
     \/ /\ q.pc = "rollback"
        /\ Rollback(r)

\* --------------------------------------------- the middleware of the routes
\* param(name).isInt({ min: 1 }) with handleValidationErrors: the route
\* parameter of that name is bound by the route's path and is an integer
\* of at least 1 (a parameter the path does not bind is undefined)
paramIsInt(params, name, min) == name \in DOMAIN params /\ params[name] >= min

validateId(params) == paramIsInt(params, "id", 1)

validateListId(params) == paramIsInt(params, "listId", 1)

\* GET /lists/:id with its middleware (the token is valid: req.user is set)
RouteGetListWithContents(r) ==
  /\ Waiting(r)
  /\ \E u \in Users, l \in ReqListIds :
    LET q == [ReqIdle EXCEPT !.op = "getListWithContents", !.user = u, !.list = l]
    IN Accept(r, IF validateId([id |-> l]) THEN [q EXCEPT !.pc = "access"]
                 ELSE ValidationFailed(q))

\* GET /tasks/list/:listId with its middleware
RouteListTasks(r) ==
  /\ Waiting(r)
  /\ \E u \in Users, l \in ReqListIds :
    LET q == [ReqIdle EXCEPT !.op = "listTasks", !.user = u, !.list = l]
    IN Accept(r, IF validateListId([listId |-> l]) THEN [q EXCEPT !.pc = "access"]
                 ELSE ValidationFailed(q))

\* POST /lists/:listId/members with its middleware; `role = 'member'` is the
\* default of the handler's destructuring
RoutePostMembers(r) ==
  /\ Waiting(r)
  /\ \E u \in Users, l \in ReqListIds, e \in {a \in Emails : ~a.upper},
        has \in BOOLEAN, ro \in Roles \cup {"", "owner"} :
    LET q == [ReqIdle EXCEPT !.op = "addMember", !.user = u, !.list = l,
                             !.email = e, !.hasEmail = has,
                             !.role = IF ro = "" THEN "member" ELSE ro]
    IN /\ has \/ e = NoEmail
       /\ Accept(r, IF validateId([listId |-> l]) /\ validateListMember(has, ro)
                    THEN [q EXCEPT !.pc = "access"]
                    ELSE ValidationFailed(q))

\* GET /lists/:listId/members with its middleware
RouteGetMembers(r) ==
  /\ Waiting(r)
  /\ \E u \in Users, l \in ReqListIds :
    LET q == [ReqIdle EXCEPT !.op = "listMembers", !.user = u, !.list = l]
    IN Accept(r, IF validateId([listId |-> l]) THEN [q EXCEPT !.pc = "access"]
                 ELSE ValidationFailed(q))

\* jwt.verify(token, secret) returns the payload (it throws otherwise)
jwtVerify(token) == token.kind = "valid"

\* GET /lists arrives: authenticateToken up to its query
RouteListAccessibleLists(r) ==
  /\ Waiting(r)
  /\ \E t \in Tokens :
    LET q == [ReqIdle EXCEPT !.op = "listAccessibleLists", !.token = t]
    IN /\ t.kind = "none" => t = NoToken
       /\ Accept(r, IF t.kind = "none" THEN Respond(q, 401, "Access token required")
                    ELSE IF ~jwtVerify(t) THEN Respond(q, 403, "Invalid or expired token")
                    ELSE [q EXCEPT !.pc = "auth"])

\* authenticateToken: SELECT id, name, email FROM users WHERE id = $1, then
\* next() into the handler; an error of the query goes to the catch block
authenticateToken(r) ==
  LET q == req[r] IN
  /\ q.pc = "auth"
  /\ Stmt(r, FALSE, Seen,
          IF q.token.userId \in Users
          THEN [q EXCEPT !.pc = "read", !.user = q.token.userId]
          ELSE Respond(q, 401, "Invalid token - user not found"),
          Respond(q, 403, "Invalid or expired token"), FALSE)

\* ------------------------------------------------------- reachable stores
\* list 1 exists, owned by some user, shared with any of the others
SharedListStores ==
  {[EmptyDB EXCEPT
      !.lists[1] = [live |-> TRUE, name |-> "groceries", owner_id |-> o],
      !.list_members = [k \in ListIds \X Users |->
                          IF k[1] = 1 /\ k[2] # o THEN m[k[2]] ELSE "none"]] :
     o \in Users, m \in [Users -> {"none", "member", "admin"}]}

\* list 1 of user 1, shared with user 2
OneListStore ==
  [EmptyDB EXCEPT !.lists[1] = [live |-> TRUE, name |-> "groceries", owner_id |-> 1],
                  !.list_members[<<1, 2>>] = "member"]

\* list 1 with one task, which may be completed, tagged and have a subtask
TaskStores(base) ==
  {base} \cup
  {[base EXCEPT
      !.tasks[1] = [live |-> TRUE, list_id |-> 1, title |-> "t1", completed |-> c],
      !.tags = tg.tags,
      !.task_tags = tg.links,
      !.subtasks[1] = sb] :
     c \in BOOLEAN,
     tg \in {[tags |-> {}, links |-> {}],
             [tags |-> {<<"w">>}, links |-> {}],
             [tags |-> {<<"w">>}, links |-> {<<1, <<"w">>>>}]},
     sb \in {NoSubtask, [live |-> TRUE, task_id |-> 1, title |-> "t1", completed |-> FALSE]}}

\* the stores a request is served in: the empty one, and list 1 of user 1
Stores ==
  {EmptyDB} \cup UNION {TaskStores(b) : b \in {v \in SharedListStores : v.lists[1].owner_id = 1}}

\* two lists: list 1 of user 1 shared with user 2, list 2 of any owner shared
\* with any of the others; task 1 in list 1 and task 2 in list 2, tagged or
\* not, the subtask under either of them
TwoListStores ==
  {[EmptyDB EXCEPT
      !.lists[1] = [live |-> TRUE, name |-> "groceries", owner_id |-> 1],
      !.lists[2] = [live |-> TRUE, name |-> "chores", owner_id |-> o],
      !.list_members = [k \in ListIds \X Users |->
                          IF k = <<1, 2>> THEN "member"
                          ELSE IF k[1] = 2 /\ k[2] # o THEN m[k[2]] ELSE "none"],
      !.tasks[1] = [live |-> TRUE, list_id |-> 1, title |-> "t1", completed |-> FALSE],
      !.tasks[2] = [live |-> TRUE, list_id |-> 2, title |-> "t2", completed |-> FALSE],
      !.tags = {<<"w">>},
      !.task_tags = links,
      !.subtasks[1] = sb] :
     o \in Users, m \in [Users -> {"none", "member", "admin"}],
     links \in SUBSET {<<1, <<"w">>>>, <<2, <<"w">>>>},
     sb \in {NoSubtask} \cup
            {[live |-> TRUE, task_id |-> t, title |-> "t1", completed |-> FALSE] : t \in {1, 2}}}

\* the sequences after the rows of v were inserted
SeqsOf(v) ==
  [lists |-> Cardinality({l \in ListIds : v.lists[l].live}),
   tasks |-> Cardinality({t \in TaskIds : v.tasks[t].live}),
   subtasks |-> Cardinality({sb \in SubtaskIds : v.subtasks[sb].live})]

\* the server has started: no client is connected, no request has arrived
Started(stores, nfaults, nrequests) ==
  /\ db \in stores
  /\ tx = [c \in Conns |-> NoTx]
  /\ idle = <<>>
  /\ held = {}
  /\ seqs = SeqsOf(db)
  /\ req = [r \in Slots |-> ReqIdle]
  /\ faults = nfaults
  /\ quota = nrequests

\* -------------------------------------------------------------------- Spec
\* Requests are served one at a time, each alone on the pool.
Init == Started(Stores, 0, MaxRequests)

Next ==
  \/ StartListAccessibleLists(1) \/ ListAccessibleLists(1)
  \/ StartCreateList(1) \/ CreateList(1)
  \/ StartGetListWithContents(1) \/ GetListWithContents(1)
  \/ StartRenameList(1) \/ RenameList(1)
  \/ StartDeleteList(1) \/ DeleteList(1)
  \/ StartListMembers(1) \/ ListMembers(1)
  \/ StartAddMember(1) \/ AddMember(1)
  \/ StartUpdateMemberRole(1) \/ UpdateMemberRole(1)
  \/ StartRemoveMember(1) \/ RemoveMember(1)
  \/ StartLeaveList(1) \/ LeaveList(1)
  \/ StartTransferOwnership(1) \/ TransferOwnership(1)
  \/ StartListTasks(1) \/ ListTasks(1)
  \/ StartGetTask(1) \/ GetTask(1)
  \/ StartCreateTask(1) \/ CreateTask(1)
  \/ StartUpdateTask(1) \/ UpdateTask(1)
  \/ StartToggleTask(1) \/ ToggleTask(1)
  \/ StartDeleteTask(1) \/ DeleteTask(1)
  \/ StartCreateSubtask(1) \/ CreateSubtask(1)
  \/ StartUpdateSubtask(1) \/ UpdateSubtask(1)
  \/ StartToggleSubtask(1) \/ ToggleSubtask(1)
  \/ StartDeleteSubtask(1) \/ DeleteSubtask(1)

Spec == Init /\ [][Next]_vars

\* ------------------------------------------------------------ SpecTransfer
\* One client transfers ownership while the health probe queries the pool.
InitTransfer == Started(SharedListStores, MaxFaults, MaxTransfers)

NextTransfer ==
  \/ StartTransferOwnership(1)
  \/ TransferOwnership(1)
  \/ HealthBegin
  \/ HealthEnd

SpecTransfer == InitTransfer /\ [][NextTransfer]_vars

\* --------------------------------------------------------------- SpecTasks
\* One client creates or updates a task while the health probe queries the
\* pool and one statement of the tag handling, or the read that follows
\* COMMIT, may fail.
InitTasks == Started(TaskStores(OneListStore), MaxFaults, MaxRequests)

NextTasks ==
  \/ StartCreateTask(1)
  \/ CreateTask(1)
  \/ StartUpdateTask(1)
  \/ UpdateTask(1)
  \/ HealthBegin
  \/ HealthEnd

SpecTasks == InitTasks /\ [][NextTasks]_vars

\* ------------------------------------------------------------- SpecMembers
\* Two clients change the membership of list 1 at the same time: their
\* statements interleave in any order.
InitMembers ==
  Started({v \in SharedListStores : v.lists[1].owner_id = 1}, 0, MaxMemberRequests)

NextMembers ==
  \E r \in Slots :
    \/ StartAddMember(r)
    \/ AddMember(r)
    \/ StartTransferOwnership(r)
    \/ TransferOwnership(r)
    \/ StartRemoveMember(r)
    \/ RemoveMember(r)
    \/ StartLeaveList(r)
    \/ LeaveList(r)

SpecMembers == InitMembers /\ [][NextMembers]_vars

\* --------------------------------------------------------------- SpecProbe
\* One principal issues the same operation twice, one request after the
\* other; both responses are kept, one per slot.
InitProbe == Started(TaskStores(OneListStore), 0, MaxProbes)

\* the two requests carry the same body
SameBody(a, b) ==
  /\ a.role = b.role /\ a.email = b.email /\ a.hasEmail = b.hasEmail /\ a.name = b.name
  /\ a.title = b.title /\ a.completed = b.completed /\ a.hasTags = b.hasTags /\ a.tags = b.tags

\* slot r takes the first request, or, once that one has been answered, the
\* second one: the same operation by the same principal with the same body,
\* whatever the ids it names
Replay(r, op) ==
  /\ (r = 1) <=> (req[1].pc = "idle")
  /\ \A s \in Slots \ {r} :
       /\ req[s].pc \in {"idle", "done"}
       /\ req[s].pc = "done" =>
            /\ req[s].op = op
            /\ req[s].user = req'[r].user
            /\ SameBody(req[s], req'[r])

NextProbe ==
  \E r \in Slots :
    \/ StartGetTask(r) /\ Replay(r, "getTask")
    \/ GetTask(r)
    \/ StartUpdateTask(r) /\ Replay(r, "updateTask")
    \/ UpdateTask(r)
    \/ StartToggleTask(r) /\ Replay(r, "toggleTask")
    \/ ToggleTask(r)
    \/ StartDeleteTask(r) /\ Replay(r, "deleteTask")
    \/ DeleteTask(r)
    \/ StartCreateSubtask(r) /\ Replay(r, "createSubtask")
    \/ CreateSubtask(r)
    \/ StartUpdateSubtask(r) /\ Replay(r, "updateSubtask")
    \/ UpdateSubtask(r)
    \/ StartToggleSubtask(r) /\ Replay(r, "toggleSubtask")
    \/ ToggleSubtask(r)
    \/ StartDeleteSubtask(r) /\ Replay(r, "deleteSubtask")
    \/ DeleteSubtask(r)
    \/ StartGetListWithContents(r) /\ Replay(r, "getListWithContents")
    \/ GetListWithContents(r)
    \/ StartListTasks(r) /\ Replay(r, "listTasks")
    \/ ListTasks(r)
    \/ StartListMembers(r) /\ Replay(r, "listMembers")
    \/ ListMembers(r)
    \/ StartRenameList(r) /\ Replay(r, "renameList")
    \/ RenameList(r)
    \/ StartDeleteList(r) /\ Replay(r, "deleteList")
    \/ DeleteList(r)
    \/ StartAddMember(r) /\ Replay(r, "addMember")
    \/ AddMember(r)
    \/ StartTransferOwnership(r) /\ Replay(r, "transferOwnership")
    \/ TransferOwnership(r)

SpecProbe == InitProbe /\ [][NextProbe]_vars

\* -------------------------------------------------------------- SpecRoutes
\* Requests enter through the middleware of their route, one at a time.  The
\* handlers of the membership routes are not among the steps: no request
\* passes validateId on a path that binds listId and not id.
InitRoutes == Started(Stores, 0, MaxRequests)

NextRoutes ==
  \/ RouteGetListWithContents(1)
  \/ GetListWithContents(1)
  \/ RouteListTasks(1)
  \/ ListTasks(1)
  \/ RoutePostMembers(1)
  \/ RouteGetMembers(1)
  \/ RouteListAccessibleLists(1)
  \/ authenticateToken(1)
  \/ ListAccessibleLists(1)

SpecRoutes == InitRoutes /\ [][NextRoutes]_vars

\* -------------------------------------------------------------- SpecToggle
\* Two clients toggle tasks and subtasks at the same time: the read and the
\* write of one request interleave with those of the other in any order.
InitToggle == Started(TaskStores(OneListStore), 0, MaxToggles)

NextToggle ==
  \E r \in Slots :
    \/ StartToggleTask(r)
    \/ ToggleTask(r)
    \/ StartToggleSubtask(r)
    \/ ToggleSubtask(r)

SpecToggle == InitToggle /\ [][NextToggle]_vars

\* --------------------------------------------------------------- SpecLists
\* Requests on the list routes, served one at a time, in a store that holds
\* two lists.
InitLists == Started(TwoListStores, 0, MaxRequests)

NextLists ==
  \/ StartListAccessibleLists(1) \/ ListAccessibleLists(1)
  \/ StartGetListWithContents(1) \/ GetListWithContents(1)
  \/ StartListMembers(1) \/ ListMembers(1)
  \/ StartRenameList(1) \/ RenameList(1)
  \/ StartDeleteList(1) \/ DeleteList(1)

SpecLists == InitLists /\ [][NextLists]_vars

\* ---------------------------------------------------------------- SpecTags
\* Two clients create or update tasks of list 1 at the same time, each
\* supplying the tag name "w", while the health probe queries the pool.
InitTags ==
  Started({v \in TaskStores(OneListStore) : v.tags = {} /\ v.subtasks[1] = NoSubtask}, 0, MaxTagRequests)

NextTags ==
  \/ \E r \in Slots :
       \/ /\ StartCreateTask(r)
          /\ seqs.tasks + Cardinality({s \in Slots : req[s].op = "createTask" /\ req[s].pc # "done"})
               < MaxTasks
          /\ req'[r].user = 1 /\ req'[r].list = 1 /\ req'[r].title = "t2"
          /\ req'[r].tags = << <<"w">> >>
       \/ CreateTask(r)
       \/ /\ StartUpdateTask(r)
          /\ req'[r].user = 1 /\ req'[r].task \in TaskIds /\ req'[r].title = "t2"
          /\ req'[r].completed = "undefined"
          /\ req'[r].tags = << <<"w">> >>
       \/ UpdateTask(r)
  \/ HealthBegin
  \/ HealthEnd

SpecTags == InitTags /\ [][NextTags]_vars

\* ---------------------------------------------------------- SpecCompletion
\* Requests that write tasks and subtasks, served one at a time, in a store
\* where task 1 has subtask 1 and may have subtask 2, each completed or not.
InitCompletion ==
  Started({[OneListStore EXCEPT
              !.tasks[1] = [live |-> TRUE, list_id |-> 1, title |-> "t1", completed |-> c],
              !.subtasks[1] = [live |-> TRUE, task_id |-> 1, title |-> "t1", completed |-> c1],
              !.subtasks[2] = IF two
                              THEN [live |-> TRUE, task_id |-> 1, title |-> "t2", completed |-> c2]
                              ELSE NoSubtask] :
             c \in BOOLEAN, c1 \in BOOLEAN, c2 \in BOOLEAN, two \in BOOLEAN},
          0, MaxRequests)

NextCompletion ==
  \/ StartToggleTask(1) \/ ToggleTask(1)
  \/ StartUpdateTask(1) \/ UpdateTask(1)
  \/ StartCreateSubtask(1) \/ CreateSubtask(1)
  \/ StartUpdateSubtask(1) \/ UpdateSubtask(1)
  \/ StartToggleSubtask(1) \/ ToggleSubtask(1)
  \/ StartDeleteSubtask(1) \/ DeleteSubtask(1)

SpecCompletion == InitCompletion /\ [][NextCompletion]_vars

\* ------------------------------------------------------------- SpecRemoved
\* A member of list 1 is removed or leaves; once that request has been
\* answered a second request arrives, any operation by any principal.
InitRemoved == Started(TaskStores(OneListStore), 0, MaxProbes)

NextRemoved ==
  \/ StartRemoveMember(1) /\ req[1].pc = "idle"
  \/ RemoveMember(1)
  \/ StartLeaveList(1) /\ req[1].pc = "idle"
  \/ LeaveList(1)
  \/ StartGetListWithContents(2) /\ req[1].pc = "done"
  \/ StartRenameList(2) /\ req[1].pc = "done"
  \/ StartDeleteList(2) /\ req[1].pc = "done"
  \/ StartListMembers(2) /\ req[1].pc = "done"
  \/ StartAddMember(2) /\ req[1].pc = "done"
  \/ StartUpdateMemberRole(2) /\ req[1].pc = "done"
  \/ StartRemoveMember(2) /\ req[1].pc = "done"
  \/ StartLeaveList(2) /\ req[1].pc = "done"
  \/ StartTransferOwnership(2) /\ req[1].pc = "done"
  \/ StartListTasks(2) /\ req[1].pc = "done"
  \/ StartGetTask(2) /\ req[1].pc = "done"
  \/ StartCreateTask(2) /\ req[1].pc = "done"
  \/ StartUpdateTask(2) /\ req[1].pc = "done"
  \/ StartToggleTask(2) /\ req[1].pc = "done"
  \/ StartDeleteTask(2) /\ req[1].pc = "done"
  \/ StartCreateSubtask(2) /\ req[1].pc = "done"
  \/ StartUpdateSubtask(2) /\ req[1].pc = "done"
  \/ StartToggleSubtask(2) /\ req[1].pc = "done"
  \/ StartDeleteSubtask(2) /\ req[1].pc = "done"
  \/ GetListWithContents(2) \/ RenameList(2) \/ DeleteList(2)
  \/ ListMembers(2) \/ AddMember(2) \/ UpdateMemberRole(2)
  \/ RemoveMember(2) \/ LeaveList(2) \/ TransferOwnership(2)
  \/ ListTasks(2) \/ GetTask(2) \/ CreateTask(2) \/ UpdateTask(2)
  \/ ToggleTask(2) \/ DeleteTask(2) \/ CreateSubtask(2)
  \/ UpdateSubtask(2) \/ ToggleSubtask(2) \/ DeleteSubtask(2)

SpecRemoved == InitRemoved /\ [][NextRemoved]_vars

\* ==================================================================== C1
\* C1: a transferOwnership whose delete (b), insert (c) or update (d) raised
\* an error ends with the committed lists and Membership rows exactly as they
\* were when the request began.
C1_TransferAllOrNothing ==
  \A r \in Slots :
    (/\ req[r].op = "transferOwnership"
     /\ req[r].pc = "done"
     /\ req[r].thrownAt \in {"tr_delete", "tr_insert", "tr_update"})
    => /\ db.lists = req[r].pre.lists
       /\ db.list_members = req[r].pre.list_members

\* ==================================================================== C2
\* C2: a createTask or updateTask in which a tag upsert, the delete of the
\* task's links or a link insert raised an error after the task row was
\* written ends with the task row and the task's links committed exactly as
\* they were before the request (no new task, no changed field, no changed link).
C2_TaskWriteAllOrNothing ==
  \A r \in Slots :
    (/\ req[r].op \in {"createTask", "updateTask"}
     /\ req[r].pc = "done"
     /\ req[r].thrownAt \in {"tag", "unlink", "link"})
    => /\ db.tasks[req[r].task] = req[r].pre.tasks[req[r].task]
       /\ TagsOf(db, req[r].task) = TagsOf(req[r].pre, req[r].task)

\* ==================================================================== C3
\* C3: in every reachable state no list has a committed Membership row for
\* its own owner.
C3_OwnerNeverMember ==
  \A l \in ListIds : db.lists[l].live => db.list_members[<<l, db.lists[l].owner_id>>] = "none"

\* ------------------------------------------------- vocabulary of the claims
\* the effective role of a principal on a list: owner, else the role of the
\* principal's Membership row, else none
EffectiveRole(v, userId, listId) ==
  IF ~ListLive(v, listId) THEN "none"
  ELSE IF v.lists[listId].owner_id = userId THEN "owner"
  ELSE MemberRow(v, listId, userId)

Answered(r) == req[r].pc = "done"

Succeeded(q) == q.status \in {200, 201}

SubtaskOps == {"updateSubtask", "toggleSubtask", "deleteSubtask"}
TaskOps == {"getTask", "updateTask", "toggleTask", "deleteTask", "createSubtask"}
ListContentOps == {"getListWithContents", "listTasks", "createTask"}
ContentOps == ListContentOps \cup TaskOps \cup SubtaskOps
ListLevelOps ==
  {"getListWithContents", "listTasks", "listMembers", "renameList", "deleteList",
   "addMember", "transferOwnership"}

\* the list that owned, when request q arrived, the content q names (0: the
\* content did not exist)
OwningList(q) ==
  IF q.op \in SubtaskOps
  THEN IF SubtaskLive(q.pre, q.sub) THEN q.pre.tasks[q.pre.subtasks[q.sub].task_id].list_id ELSE 0
  ELSE IF q.op \in TaskOps
  THEN IF TaskLive(q.pre, q.task) THEN q.pre.tasks[q.task].list_id ELSE 0
  ELSE IF ListLive(q.pre, q.list) THEN q.list ELSE 0

\* the role the principal of q had when q arrived, on the list q names
RoleOf(q) == EffectiveRole(q.pre, q.user, OwningList(q))

\* the body of q passes the checks the handler makes before any authorization
WellFormed(q) ==
  /\ q.op \in {"addMember", "updateMemberRole"} => q.role \in Roles
  /\ q.op = "transferOwnership" => q.hasEmail

ContentUnchanged(q) ==
  /\ db.tasks = q.pre.tasks
  /\ db.subtasks = q.pre.subtasks
  /\ db.task_tags = q.pre.task_tags

\* ==================================================================== C4
\* C4: a request that reads or writes the content of an existing list succeeds
\* iff the principal's effective role on the owning list is owner, admin or
\* member; with role none it is answered 404, carries no content and leaves
\* every Task, Subtask and TaskTag row as it was.
C4_ContentAccessByRole ==
  \A r \in Slots :
    (Answered(r) /\ req[r].op \in ContentOps /\ OwningList(req[r]) # 0)
    => /\ Succeeded(req[r]) <=> RoleOf(req[r]) \in {"owner", "admin", "member"}
       /\ RoleOf(req[r]) = "none" =>
            /\ req[r].status = 404
            /\ req[r].data = NoData
            /\ ContentUnchanged(req[r])

C7_RenameNeedsAdmin ==
  \A r \in Slots :
    (Answered(r) /\ req[r].op = "renameList")
    => /\ RoleOf(req[r]) \in {"owner", "admin"} =>
            /\ req[r].status = 200
            /\ db.lists[req[r].list].name = req[r].name
       /\ RoleOf(req[r]) = "member" =>
            /\ checkListAccess(req[r].pre, req[r].user, req[r].list)
            /\ req[r].status = 403
            /\ db.lists = req[r].pre.lists

\* a plain member asked for another name and was refused
C7_MemberRefused ==
  \E r \in Slots :
    /\ Answered(r)
    /\ req[r].op = "renameList"
    /\ RoleOf(req[r]) = "member"
    /\ req[r].name # req[r].pre.lists[req[r].list].name
    /\ req[r].status = 403

NamesMissing(q) == OwningList(q) = 0

\* q names content that existed, on a list on which its principal had no role
NamesInaccessible(q) == OwningList(q) # 0 /\ RoleOf(q) = "none"

\* a and b are the same operation of the same principal
SameCall(a, b) == a.op = b.op /\ a.user = b.user

SameResponse(a, b) == a.status = b.status /\ a.body = b.body /\ a.data = b.data

\* ==================================================================== C8
\* C8: for a task or subtask operation, the response (status and error body)
\* for an id that does not exist equals the response for an id that exists on
\* a list the principal cannot access.
C8_TaskExistenceHidden ==
  \A a, b \in Slots :
    (/\ Answered(a) /\ Answered(b)
     /\ req[a].op \in TaskOps \cup SubtaskOps
     /\ SameCall(req[a], req[b])
     /\ NamesMissing(req[a])
     /\ NamesInaccessible(req[b]))
    => /\ req[a].status = req[b].status
       /\ req[a].body = req[b].body

\* ==================================================================== C9
\* C9: for a list-level operation, a principal without a role on a list gets
\* the same response for the id of that list as for an id no list has.
C9_ListExistenceHidden ==
  \A a, b \in Slots :
    (/\ Answered(a) /\ Answered(b)
     /\ req[a].op \in ListLevelOps
     /\ SameCall(req[a], req[b])
     /\ NamesMissing(req[a])
     /\ NamesInaccessible(req[b]))
    => SameResponse(req[a], req[b])

\* a principal without a role asked to read a list that exists and one that
\* does not
C9_BothAsked ==
  \E a, b \in Slots :
    /\ Answered(a) /\ Answered(b)
    /\ req[a].op = "getListWithContents"
    /\ SameCall(req[a], req[b])
    /\ NamesMissing(req[a])
    /\ NamesInaccessible(req[b])
    /\ TasksOf(req[b].pre, req[b].list) # {}

\* =================================================================== C11
\* C11: POST /lists/:listId/members by an owner or admin of the list, with the
\* email of an existing user who is neither its owner nor a member and a role
\* of member or admin, is answered 201 and leaves the Membership row of that
\* user on the list with the requested role.
C11_AddMemberThroughRoute ==
  \A r \in Slots :
    LET q == req[r]
        b == UserByEmail(q.email)
    IN (/\ Answered(r)
        /\ q.op = "addMember"
        /\ q.hasEmail /\ q.role \in Roles
        /\ RoleOf(q) \in {"owner", "admin"}
        /\ b # 0
        /\ EffectiveRole(q.pre, b, q.list) = "none")
       => /\ q.status = 201
          /\ MemberRow(db, q.list, b) = q.role

\* =================================================================== C12
\* the completed value of every task and subtask that request q found and
\* left in place is the one it had when q arrived
CompletedUnchanged(q) ==
  /\ \A t \in TaskIds :
       (TaskLive(q.pre, t) /\ TaskLive(db, t)) => db.tasks[t].completed = q.pre.tasks[t].completed
  /\ \A sb \in SubtaskIds :
       (SubtaskLive(q.pre, sb) /\ SubtaskLive(db, sb))
       => db.subtasks[sb].completed = q.pre.subtasks[sb].completed

\* q may change a completed value: a toggle, or an update that carries the
\* completed field
SetsCompleted(q) ==
  \/ q.op \in {"toggleTask", "toggleSubtask"}
  \/ q.op \in {"updateTask", "updateSubtask"} /\ q.completed # "undefined"

\* C12: a request that is neither a toggle nor an update carrying an explicit
\* completed field leaves the completed value of every task and subtask as it
\* was; in particular updateTask and updateSubtask with completed omitted.
C12_CompletedOnlyExplicitly ==
  \A r \in Slots :
    (Answered(r) /\ ~SetsCompleted(req[r])) => CompletedUnchanged(req[r])

\* =================================================================== C13
\* the name a supplied tag name stands for
Normalised(tagName) == toLowerCase(trim(tagName))

\* the list names the same tag at two positions
NamesTwice(tags) ==
  \E i, j \in 1..Len(tags) : i < j /\ Normalised(tags[i]) = Normalised(tags[j])

\* a createTask or updateTask that supplies tags, by a principal with a role
\* on the list it names
WritesTags(q) ==
  /\ q.op \in {"createTask", "updateTask"}
  /\ q.hasTags
  /\ OwningList(q) # 0
  /\ RoleOf(q) # "none"

\* C13: createTask and updateTask with a tag list that names the same tag
\* more than once after trimming and lower-casing succeed, and leave the task
\* linked to the one Tag row of each name.
C13_RepeatedNameOneLink ==
  \A r \in Slots :
    (Answered(r) /\ WritesTags(req[r]) /\ NamesTwice(req[r].tags))
    => /\ Succeeded(req[r])
       /\ TagsOf(db, req[r].task) = {Normalised(req[r].tags[i]) : i \in 1..Len(req[r].tags)}
       /\ TagsOf(db, req[r].task) \subseteq db.tags

\* =================================================================== C14
\* the tags a supplied list of names stands for: the trimmed, lower-cased
\* names, a name that is empty after trimming naming no tag
NamedTags(tags) == {Normalised(tags[i]) : i \in 1..Len(tags)} \ {<<>>}

\* C14: after a successful updateTask or createTask that supplies tag names
\* the task's links are exactly the tags those names stand for; a successful
\* updateTask without a tags field leaves the task's links as they were, and a
\* successful createTask without one leaves the new task without links.
C14_LinksAreTheSuppliedSet ==
  \A r \in Slots :
    LET q == req[r] IN
    (Answered(r) /\ Succeeded(q) /\ q.op \in {"createTask", "updateTask"})
    => TagsOf(db, q.task) =
         IF q.hasTags THEN NamedTags(q.tags)
         ELSE IF q.op = "updateTask" THEN TagsOf(q.pre, q.task)
         ELSE {}

\* =================================================================== C15
\* C15: a well-formed removeMember or updateMemberRole by an owner or admin
\* whose target is the owner of the list is answered 400 and leaves the owner
\* of the list and every Membership row as they were.
C15_OwnerIsNoTarget ==
  \A r \in Slots :
    LET q == req[r] IN
    (/\ Answered(r)
     /\ q.op \in {"removeMember", "updateMemberRole"}
     /\ WellFormed(q)
     /\ RoleOf(q) \in {"owner", "admin"}
     /\ EffectiveRole(q.pre, q.target, q.list) = "owner")
    => /\ q.status = 400
       /\ db.lists = q.pre.lists
       /\ db.list_members = q.pre.list_members

C18_DuplicateAddIsConflict ==
  \A r, s \in Slots :
    (/\ r # s
     /\ Answered(r) /\ Answered(s)
     /\ req[r].op = "addMember" /\ req[s].op = "addMember"
     /\ req[r].list = req[s].list
     /\ req[r].target # 0 /\ req[r].target = req[s].target
     /\ req[r].status = 201)
    => /\ req[s].status = 409
       /\ MemberRow(db, req[r].list, req[r].target) = req[r].role

\* =================================================================== C19
IsToggle(q) == q.op \in {"toggleTask", "toggleSubtask"}

\* the completed value, in store v, of the task or subtask that toggle q names
CompletedOf(v, q) ==
  IF q.op = "toggleTask" THEN v.tasks[q.task].completed ELSE v.subtasks[q.sub].completed

\* C19: a toggle served with no other write in flight leaves completed the
\* negation of what it was when the toggle arrived; when the same principal
\* toggles the same task (or subtask) twice, one request after the other, the
\* value is again what it was before the first.
C19_ToggleFlipsTwiceRestores ==
  /\ (Answered(1) /\ IsToggle(req[1]) /\ Succeeded(req[1]) /\ req[2].pc = "idle")
     => CompletedOf(db, req[1]) = ~CompletedOf(req[1].pre, req[1])
  /\ (Answered(2) /\ IsToggle(req[2]) /\ Succeeded(req[2]))
     => CompletedOf(db, req[2]) = ~CompletedOf(req[2].pre, req[2])
  /\ (/\ Answered(1) /\ Answered(2)
      /\ IsToggle(req[1]) /\ Succeeded(req[1]) /\ Succeeded(req[2])
      /\ req[1].task = req[2].task /\ req[1].sub = req[2].sub)
     => CompletedOf(db, req[1]) = CompletedOf(req[1].pre, req[1])

\* a completed task was toggled twice and is completed again
C19_ToggledTwice ==
  /\ Answered(1) /\ Answered(2)
  /\ req[1].op = "toggleTask" /\ req[2].op = "toggleTask"
  /\ Succeeded(req[1]) /\ Succeeded(req[2])
  /\ req[1].task = req[2].task
  /\ req[1].pre.tasks[req[1].task].completed
  /\ ~req[2].pre.tasks[req[2].task].completed
  /\ db.tasks[req[1].task].completed

\* =================================================================== C20
\* every toggle by a principal with a role on the list is answered 200
TogglesSucceed ==
  \A r \in Slots :
    (Answered(r) /\ IsToggle(req[r]) /\ OwningList(req[r]) # 0 /\ RoleOf(req[r]) # "none")
    => req[r].status = 200

\* the write of a toggle leaves completed the negation of the value the
\* request read, whatever was written since
ToggleWritesNegationOfRead ==
  \A r \in Slots :
    (IsToggle(req[r]) /\ req[r].pc = "write" /\ req'[r].pc = "done")
    => /\ req'[r].status = 200
       /\ CompletedOf(db', req[r]) = ~req[r].cur

\* C20: two toggles of the same task or subtask whose reads and writes
\* interleave both report success, and each write stores the negation of the
\* value its request read, so the final value is the one the last write
\* stored and no error arises from the race.
C20_ToggleRaceLastWriteWins == []TogglesSucceed /\ [][ToggleWritesNegationOfRead]_vars

\* the lost update: both toggles of a task read the same value and both
\* succeeded, and the task ends flipped once
C20_LostUpdate ==
  /\ Answered(1) /\ Answered(2)
  /\ req[1].op = "toggleTask" /\ req[2].op = "toggleTask"
  /\ req[1].task = req[2].task
  /\ req[1].status = 200 /\ req[2].status = 200
  /\ req[1].cur = req[2].cur
  /\ req[1].pre.tasks[req[1].task].completed = req[1].cur
  /\ req[2].pre.tasks[req[2].task].completed = req[2].cur
  /\ db.tasks[req[1].task].completed = ~req[1].cur

\* =================================================================== C21
\* the tasks that belonged to list l in store v
TasksIn(v, l) == {t \in TaskIds : v.tasks[t].live /\ v.tasks[t].list_id = l}

\* C21: after a successful deleteList no task of the list, no subtask and no
\* TaskTag link of such a task and no Membership row of the list remains, and
\* the tasks, subtasks, links and Membership rows of every other list are as
\* they were.
C21_DeleteListCascades ==
  \A r \in Slots :
    LET q == req[r]
        gone == TasksIn(q.pre, q.list)
    IN (Answered(r) /\ q.op = "deleteList" /\ Succeeded(q))
       => /\ ~ListLive(db, q.list)
          /\ \A t \in TaskIds :
               db.tasks[t] = IF t \in gone THEN NoTask ELSE q.pre.tasks[t]
          /\ \A sb \in SubtaskIds :
               db.subtasks[sb] =
                 IF q.pre.subtasks[sb].live /\ q.pre.subtasks[sb].task_id \in gone
                 THEN NoSubtask ELSE q.pre.subtasks[sb]
          /\ db.task_tags = {k \in q.pre.task_tags : k[1] \notin gone}
          /\ \A k \in ListIds \X Users :
               db.list_members[k] = IF k[1] = q.list THEN "none" ELSE q.pre.list_members[k]
          /\ \A l \in ListIds \ {q.list} : db.lists[l] = q.pre.lists[l]

\* list 1, shared, with a tagged task and a subtask, was deleted; list 2 still
\* has its member, its tagged task
C21_DeletedBesideAnother ==
  \E r \in Slots :
    LET q == req[r] IN
    /\ Answered(r) /\ q.op = "deleteList" /\ Succeeded(q)
    /\ q.list = 1
    /\ q.pre.subtasks[1].live /\ q.pre.subtasks[1].task_id = 1
    /\ <<1, <<"w">>>> \in q.pre.task_tags
    /\ ListLive(db, 2)
    /\ db.tasks[2].live
    /\ <<2, <<"w">>>> \in db.task_tags
    /\ \E u \in Users : MemberRow(db, 2, u) # "none"

\* =================================================================== C22
\* C22: no step of any operation removes a Tag row: the set of Tag rows of the
\* Store only grows.
C22_TagsOnlyGrow == [][db.tags \subseteq db'.tags]_vars

\* a tagged task was deleted: its link is gone, the tag is still there
C22_TagOutlivesTask ==
  \E r \in Slots :
    LET q == req[r] IN
    /\ Answered(r) /\ q.op = "deleteTask" /\ Succeeded(q)
    /\ <<q.task, <<"w">>>> \in q.pre.task_tags
    /\ <<q.task, <<"w">>>> \notin db.task_tags
    /\ ~TaskLive(db, q.task)
    /\ <<"w">> \in db.tags

\* =================================================================== C23
\* the lists that exist in both stores with different owners
OwnerChanged(v, w) ==
  {l \in ListIds : ListLive(v, l) /\ ListLive(w, l) /\ w.lists[l].owner_id # v.lists[l].owner_id}

\* C23: a step changes the owner of an existing list only when it is a step
\* of a transferOwnership on that list, and a request after which a list has
\* another owner than at its arrival is a transferOwnership on that list
\* answered 200; no other operation changes the owner of a list.
C23_OnlyTransferChangesOwner ==
  /\ [](\A r \in Slots :
          (Answered(r) /\ OwnerChanged(req[r].pre, db) # {})
          => /\ req[r].op = "transferOwnership"
             /\ req[r].status = 200
             /\ OwnerChanged(req[r].pre, db) = {req[r].list})
  /\ [][\A l \in OwnerChanged(db, db') :
          \E r \in Slots : req[r].op = "transferOwnership" /\ req[r].list = l]_vars

\* ownership went to a user who had no role on the list
C23_OwnerChanged ==
  \E r \in Slots :
    LET q == req[r] IN
    /\ Answered(r) /\ q.op = "transferOwnership" /\ q.status = 200
    /\ q.pre.lists[q.list].owner_id = q.user
    /\ EffectiveRole(q.pre, q.target, q.list) = "none"
    /\ db.lists[q.list].owner_id = q.target
    /\ q.target # q.user

\* =================================================================== C24
\* C24: after a successful createList the new list has the principal as its
\* owner and no Membership row, the principal's effective role on it is
\* owner, and every other row of the Store, the Membership rows of the other
\* lists among them, is as it was.
C24_CreatorOwnsNewList ==
  \A r \in Slots :
    LET q == req[r] IN
    (Answered(r) /\ q.op = "createList" /\ Succeeded(q))
    => /\ ~ListLive(q.pre, q.list)
       /\ db.lists[q.list] = [live |-> TRUE, name |-> q.name, owner_id |-> q.user]
       /\ \A u \in Users : db.list_members[<<q.list, u>>] = "none"
       /\ EffectiveRole(db, q.user, q.list) = "owner"
       /\ db = [q.pre EXCEPT !.lists[q.list] = db.lists[q.list]]

\* a member of list 1 created list 2; list 1 still has its Membership rows
C24_SecondListCreated ==
  \E r \in Slots :
    LET q == req[r] IN
    /\ Answered(r) /\ q.op = "createList" /\ Succeeded(q)
    /\ q.list = 2
    /\ MemberRow(q.pre, 1, q.user) = "member"
    /\ MemberRow(db, 1, q.user) = "member"
    /\ db.lists[2].owner_id = q.user

\* =================================================================== C25
\* the token of q does not resolve to a principal: it is missing, forged or
\* expired, or it names a user whose row is gone
Unauthenticated(q) == q.token.kind # "valid" \/ q.token.userId \notin Users

\* C25: a request whose token is missing, has a bad signature, is expired or
\* names a user whose row no longer exists is answered 401, its handler does
\* not run and the Store is as it was.
C25_UnauthenticatedIs401 ==
  \A r \in Slots :
    LET q == req[r] IN
    (Answered(r) /\ q.op = "listAccessibleLists" /\ Unauthenticated(q))
    => /\ q.status = 401
       /\ q.data = NoData
       /\ db = q.pre

\* =================================================================== C26
\* the validation, authentication, permission-denied and not-found outcomes
Refusals == {400, 401, 403, 404}

\* the positions of the handlers whose statement is a write
WriteSteps == {"write", "insert", "unlink", "tag", "link", "tr_delete", "tr_insert", "tr_update"}

\* this step answers request r with a refusal
Refuses(r) == req[r].pc # "done" /\ req'[r].pc = "done" /\ req'[r].status \in Refusals

\* C26 as stated: every refusal is decided before the handler has issued a
\* write statement, and the Store after it is the Store the request found.
C26_RefusedBeforeAnyWrite ==
  [][\A r \in Slots :
       Refuses(r) => /\ req[r].pc \notin WriteSteps
                     /\ db' = req'[r].pre]_vars

\* C26, amended: after every refusal the Store is the Store the request
\* found; the refusal is decided before any write statement, except the 404 of
\* removeMember and leaveList, which is the result of their DELETE having
\* matched no row.
C26_RefusalsLeaveStore ==
  [][\A r \in Slots :
       Refuses(r) => /\ db' = req'[r].pre
                     /\ req[r].pc \in WriteSteps =>
                          /\ req[r].op \in {"removeMember", "leaveList"}
                          /\ req'[r].status = 404]_vars

\* the owner asked to remove a user who has no Membership row: 404, and the
\* rows of the other members are still there
C26_NothingToRemove ==
  \E r \in Slots :
    LET q == req[r] IN
    /\ Answered(r) /\ q.op = "removeMember" /\ q.status = 404
    /\ RoleOf(q) = "owner"
    /\ q.target \in Users
    /\ \E u \in Users : MemberRow(db, q.list, u) # "none"
    /\ db = q.pre

\* =================================================================== C27
\* the user an address names when letter case is ignored (0: nobody)
NamedUser(e) == IF e.user \in Users THEN e.user ELSE 0

ReportedRoles(q, l, u) ==
  CASE q.op = "listAccessibleLists" ->
         IF u = q.user THEN {row[2] : row \in {w \in q.data.roles : w[1] = l}} ELSE {}
    [] q.op = "getListWithContents" ->
         IF u = q.user /\ l = q.list THEN {q.user_role} ELSE {}
    [] q.op = "listMembers" ->
         IF l = q.list THEN {row[2] : row \in {w \in q.data.members : w[1] = u}} ELSE {}
    [] OTHER -> {}

\* C28: whatever role listAccessibleLists, getListWithContents or listMembers
\* reports for a principal on a list is the effective role: owner exactly when
\* the principal owns the list, otherwise the role of the Membership row,
\* otherwise none; and no principal is reported with two roles on one list.
C28_ReportedRoleIsEffective ==
  \A r \in Slots :
    LET q == req[r] IN
    (Answered(r) /\ q.status = 200)
    => \A l \in ListIds, u \in Users :
         /\ ReportedRoles(q, l, u) \subseteq {EffectiveRole(q.pre, u, l)}
         /\ Cardinality(ReportedRoles(q, l, u)) <= 1

\* =================================================================== C29
\* request q of a member of the list supplies the tag name and nothing else,
\* for a task that is there, and the name was in no Tag row when q arrived
SuppliesNewTag(q, name) ==
  /\ q.op \in {"createTask", "updateTask"}
  /\ q.hasTags /\ NamedTags(q.tags) = {name}
  /\ name \notin q.pre.tags
  /\ RoleOf(q) # "none"
  /\ q.op = "updateTask" => TaskLive(q.pre, q.task)

\* C29: when two createTask or updateTask requests on different tasks both
\* supply a tag name that no Tag row had when they arrived, both succeed, the
\* name is a Tag row afterwards and both tasks are linked to it.
C29_SameNewTagTwice ==
  \A r, s \in Slots :
    LET q == req[r]
        p == req[s]
        name == <<"w">>
    IN
    (/\ r # s /\ Answered(r) /\ Answered(s)
     /\ \A c \in Conns : tx[c].state = "none"
     /\ SuppliesNewTag(q, name) /\ SuppliesNewTag(p, name)
     /\ q.op = "updateTask" /\ p.op = "updateTask" => q.task # p.task)
    => /\ Succeeded(q) /\ Succeeded(p)
       /\ name \in db.tags
       /\ {<<q.task, name>>, <<p.task, name>>} \subseteq db.task_tags

\* =================================================================== C30
TxOps == {"createTask", "updateTask", "transferOwnership"}
Begins == {"begin", "tr_begin"}
Commits == {"commit", "tr_commit"}
Rollbacks == {"rollback", "tr_rollback"}

\* C30: in createTask, updateTask and transferOwnership BEGIN is issued before
\* the first write, COMMIT only after the writes, none of which failed, a
\* failed write is followed by ROLLBACK, and ROLLBACK is issued only for a
\* failed write of the group: never once COMMIT has been issued.
C30_BeginCommitRollbackOrder ==
  [][\A r \in Slots :
       LET a == req[r].pc
           b == req'[r].pc
       IN
       (req[r].op \in TxOps /\ req'[r].op = req[r].op /\ req'[r] # req[r])
       => /\ (b \in WriteSteps /\ a \notin WriteSteps) => a \in Begins
          /\ b \in Commits => (a \in WriteSteps /\ req'[r].thrownAt = "")
          /\ (a \in WriteSteps /\ faults' < faults) => b \in Rollbacks
          /\ b \in Rollbacks => a \in WriteSteps]_vars

\* =================================================================== C31
\* C31: every Membership row has the role member or admin ("none": no row).
C31_MembershipRoles ==
  \A k \in ListIds \X Users : db.list_members[k] \in Roles \cup {"none"}

\* the owner added a user who was no member with the role owner in the body
\* and was answered 400
C31_OwnerRoleRefused ==
  \E r \in Slots :
    LET q == req[r] IN
    /\ Answered(r) /\ q.op = "addMember" /\ q.role = "owner"
    /\ RoleOf(q) = "owner"
    /\ UserByEmail(q.email) \in Users \ {q.user}
    /\ MemberRow(q.pre, q.list, UserByEmail(q.email)) = "none"
    /\ q.status = 400

\* =================================================================== C32
\* the completed value of every task that was there
TasksCompletedKept(q) ==
  \A t \in TaskIds :
    (TaskLive(q.pre, t) /\ TaskLive(db, t)) => db.tasks[t].completed = q.pre.tasks[t].completed

\* the completed value of every subtask that was there, but for `own`
SubtasksCompletedKept(q, own) ==
  \A sb \in SubtaskIds \ own :
    SubtaskLive(q.pre, sb)
    => SubtaskLive(db, sb) /\ db.subtasks[sb].completed = q.pre.subtasks[sb].completed

\* C32: toggleTask and updateTask leave the completed value of every subtask as
\* it was; createSubtask, updateSubtask, toggleSubtask and deleteSubtask leave
\* the completed value of every task and of every other subtask as it was.
C32_CompletionNeverCascades ==
  \A r \in Slots :
    LET q == req[r] IN
    Answered(r) =>
      /\ q.op \in {"toggleTask", "updateTask"} => SubtasksCompletedKept(q, {})
      /\ q.op \in {"createSubtask", "updateSubtask", "toggleSubtask", "deleteSubtask"}
         => TasksCompletedKept(q) /\ SubtasksCompletedKept(q, {q.sub})

\* the last open subtask of an open task was toggled to completed beside a
\* completed sibling, and the task is still open
C32_LastSubtaskCompleted ==
  \E r \in Slots :
    LET q == req[r] IN
    /\ Answered(r) /\ q.op = "toggleSubtask" /\ q.status = 200
    /\ q.sub = 1
    /\ ~q.pre.subtasks[1].completed /\ db.subtasks[1].completed
    /\ SubtaskLive(db, 2) /\ db.subtasks[2].completed
    /\ ~db.tasks[1].completed

\* =================================================================== C33
\* request s has inserted its task and has not yet issued its COMMIT
InsertedNotCommitted(s) ==
  req[s].op = "createTask" /\ req[s].pc \in {"tag", "link", "commit"}

\* C33: with several requests in flight, a write of createTask, updateTask or
\* transferOwnership runs in a transaction that is open on its client, the
\* COMMIT of one request does not make durable the task another request has
\* inserted and not yet committed, and the ROLLBACK of one request does not
\* discard it.
C33_TransactionPerRequest ==
  [][\A r \in Slots :
       (req'[r] # req[r] /\ req[r].op \in TxOps)
       => /\ req[r].pc \in WriteSteps => tx[PoolConn].state # "none"
          /\ \A s \in Slots \ {r} :
               InsertedNotCommitted(s)
               => /\ req[r].pc \in Commits
                     => (TaskLive(db', req[s].task) => TaskLive(db, req[s].task))
                  /\ req[r].pc \in Rollbacks
                     => \A c \in Conns :
                          TaskLive(View(c), req[s].task) => TaskLive(View(c)', req[s].task)]_vars

\* =================================================================== C34
\* nothing request q wrote is committed: the task it created is not there, or
\* the task it updated and that task's links are as they were
WritesNotCommitted(q) ==
  IF q.op = "createTask"
  THEN q.task \in TaskIds => ~TaskLive(db, q.task)
  ELSE q.task \in TaskIds
       => /\ db.tasks[q.task] = q.pre.tasks[q.task]
          /\ TagsOf(db, q.task) = TagsOf(q.pre, q.task)

\* C34: a createTask or updateTask answered 500 has committed none of its
\* writes: once COMMIT has been issued the answer is the success response.
C34_ErrorMeansNotCommitted ==
  \A r \in Slots :
    LET q == req[r] IN
    (Answered(r) /\ q.op \in {"createTask", "updateTask"} /\ q.status = 500)
    => /\ q.thrownAt # "final"
       /\ WritesNotCommitted(q)

\* =================================================================== C35
\* the roles that allow the operation
RequiredRoles(op) ==
  IF op = "transferOwnership" THEN {"owner"} ELSE {"owner", "admin"}

\* C35: when a step of an addMember, updateMemberRole, removeMember or
\* transferOwnership request changes a Membership row or the owner of a list,
\* the requester's effective role on the list, in the store as it is at that
\* step, is one the operation requires.
C35_RoleHeldAtWrite ==
  [][\A r \in Slots :
       LET q == req[r] IN
       (/\ req'[r] # q
        /\ q.op \in {"addMember", "updateMemberRole", "removeMember", "transferOwnership"}
        /\ (db'.list_members # db.list_members \/ OwnerChanged(db, db') # {}))
       => EffectiveRole(db, q.user, q.list) \in RequiredRoles(q.op)]_vars

\* =================================================================== C36
\* the principal whose Membership row request q deleted (0: none)
RemovedBy(q) ==
  IF ~(q.pc = "done" /\ q.status = 200) THEN 0
  ELSE IF q.op = "removeMember" /\ MemberRow(q.pre, q.list, q.target) # "none" THEN q.target
  ELSE IF q.op = "leaveList" /\ MemberRow(q.pre, q.list, q.user) # "none" THEN q.user
  ELSE 0

\* the operations that answer a principal without a role as if the list or
\* its content were not there
HidingOps == ContentOps \cup {"getListWithContents", "listTasks", "listMembers", "leaveList"}

C37_NoEmptyTagName ==
  /\ <<>> \notin db.tags
  /\ \A k \in db.task_tags : k[2] # <<>>

====
